---- MODULE Spec2Model ----
(***************************************************************************)
(* Model of the Kubernetes reconciliation helpers of                       *)
(* ansible-kubernetes-modules:                                             *)
(*   lookup_plugins/k8s.py   AnsibleMixin (object materializer / merger),  *)
(*                           remove_secret_data, KubernetesLookup          *)
(*   module_utils/k8s/raw.py KubernetesRawModule.execute_module (driver)   *)
(*                                                                         *)
(* Python values are tagged records [t |-> type name, v |-> payload]; the  *)
(* tag is what type(x).__name__ returns.  A model object of class C is     *)
(* [t |-> C, v |-> [attribute |-> value]] and carries every attribute of   *)
(* its class, None when unset, as the generated client models do.          *)
(***************************************************************************)
EXTENDS Integers, Sequences, FiniteSets, TLC

VARIABLES
    pc,          \* position of the operation under way
    hashOrder,   \* iteration order of Python sets in this process
    src,         \* merge target (list, map or object) of the operation
    req,         \* supplied value of the operation
    out,         \* outcome of the operation: [ok, val, err]
    kind,        \* resource kind of the pass / the lookup
    params,      \* module parameters: name -> value (None when not supplied)
    state,       \* desired state, "present" or "absent"
    force,       \* force flag
    check_mode,  \* dry-run flag
    server,      \* what the server holds: an object or None, a list for a lookup
    srvFault,    \* which collaborator call fails in this pass ("none": no one)
    srvStatus,   \* status the server answers with when that call fails
    existing,    \* what the fetch returned
    calls,       \* collaborator operations invoked in this pass, in order
    action,      \* branch DECIDE took in this pass, "none" before it
    ret,         \* return_attributes handed to exit_json
    run,         \* number of the pass
    prev,        \* outcome of the pass before this one
    module,      \* kind, api_version, resource_definition and src of the module
    lookup       \* keyword arguments and API methods of a lookup

vars == <<pc, hashOrder, src, req, out, kind, params, state, force,
          check_mode, server, srvFault, srvStatus, existing, calls, action,
          ret, run,
          prev, module, lookup>>

(***************************************************************************)
(* Bounds                                                                  *)
(***************************************************************************)
\* longest list of primitives drawn as an input
MaxLen == 2
\* identifiers have up to MaxSegs segments of up to MaxSegLen letters
MaxSegs == 3
MaxSegLen == 2
MaxCamelLen == 4
MaxDocs == 2
\* most entries of an existing list of objects drawn as an input
MaxEntries == 2
\* most elements of a request list of objects drawn as an input
MaxItems == 2
\* passes run one after the other with the same definition
MaxRuns == 2
\* most objects the server holds when a lookup is made
MaxObjects == 2

(***************************************************************************)
(* Python values                                                           *)
(***************************************************************************)
NoneV == [t |-> "NoneType", v |-> "-"]
Str(s) == [t |-> "str", v |-> s]
Lst(s) == [t |-> "list", v |-> s]
Dct(f) == [t |-> "dict", v |-> f]
Obj(c, f) == [t |-> c, v |-> f]
EmptyMap == [k \in {} |-> NoneV]

\* openshift.helper.PRIMITIVES as the helpers see it (imported at k8s.py:207)
PRIMITIVES == {"str", "int", "bool", "float"}

\* bool(x) of Python: None, "", [] and {} are false, everything else true
Truthy(x) ==
    CASE x.t = "NoneType" -> FALSE
      [] x.t = "str" -> x.v # ""
      [] x.t = "list" -> Len(x.v) > 0
      [] x.t = "dict" -> DOMAIN x.v # {}
      [] OTHER -> TRUE

\* outcome of a helper: a value, or the exception it raised
Ok(x) == [ok |-> TRUE, val |-> x, err |-> "none"]
Raise(e) == [ok |-> FALSE, val |-> NoneV, err |-> e]

Range(s) == {s[i] : i \in DOMAIN s}

\* the primitives lists are made of
PrimUniverse == {Str("a"), Str("b"), Str("c")}

\* list(S) for a Python set S: the elements in the process's hash order
SetToList(S) == SelectSeq(hashOrder, LAMBDA e : e \in S)

Permutations3 ==
    {s \in [1..3 -> PrimUniverse] : \A i, j \in 1..3 : i # j => s[i] # s[j]}

\* the loops of __compare_list over dicts and lists: request elements with no
\* match in src_values are collected and appended.  In the dict branch the
\* Python 3 test compares two iterators, which are never equal; in the list
\* branch a request list matches a source list it includes.
AppendMissing(src_values, request_values, elemType) ==
    LET matches(r) ==
            IF elemType = "dict" THEN FALSE
            ELSE \E i \in DOMAIN src_values :
                    Range(src_values[i].v) \subseteq Range(r.v)
        missing == SelectSeq(request_values, LAMBDA r : ~matches(r))
    IN  src_values \o missing

\* __compare_list: append to src_values the request_values it lacks
CompareList(src_values, request_values) ==
    IF ~Truthy(request_values) THEN Ok(src_values)
    ELSE IF src_values.t = "NoneType" THEN Raise("TypeError")
    ELSE IF src_values.t = "str"
    THEN \* a string in the place of the list: its characters are compared
         \* as a set and nothing can be appended to it (the strings drawn
         \* have one character)
         IF /\ Truthy(src_values)
            /\ \A e \in Range(request_values.v) :
                  e.t = "str" /\ e.v = src_values.v
         THEN Ok(src_values)
         ELSE Raise("TypeError")
    ELSE LET s1 == IF ~Truthy(src_values)
                   THEN Lst(src_values.v \o request_values.v)
                   ELSE src_values
             head == s1.v[1].t
         IN  IF head \in PRIMITIVES
             THEN IF \E e \in Range(s1.v) \cup Range(request_values.v) :
                         e.t \in {"list", "dict"}
                  THEN Raise("TypeError")
                  ELSE IF Range(request_values.v) \subseteq Range(s1.v)
                  THEN Ok(s1)
                  ELSE Ok(Lst(s1.v \o SetToList(Range(request_values.v)
                                                  \ Range(s1.v))))
             ELSE IF head \in {"dict", "list"}
             THEN Ok(Lst(AppendMissing(s1.v, request_values.v, head)))
             ELSE Raise("KubernetesException")

(***************************************************************************)
(* Schema: swagger_types of the model classes, a cut of the generated      *)
(* client's models.  A kind is primitive, dict(..), list[..] or a class.   *)
(***************************************************************************)
Prim(n) == [k |-> "prim", of |-> n]
DictOf(n) == [k |-> "dict", of |-> n]
ListOf(n) == [k |-> "list", of |-> n]
Class(n) == [k |-> "obj", of |-> n]

\* obj.swagger_types of each model class
SwaggerTypes(cls) ==
    CASE cls = "V1ObjectMeta" ->
            [name |-> Prim("str"), namespace |-> Prim("str"),
             labels |-> DictOf("str"), annotations |-> DictOf("str")]
      [] cls = "V1Secret" ->
            [kind |-> Prim("str"), metadata |-> Class("V1ObjectMeta"),
             data |-> DictOf("str"), string_data |-> DictOf("str")]
      [] cls = "V1Pod" ->
            [kind |-> Prim("str"), metadata |-> Class("V1ObjectMeta"),
             spec |-> Class("V1PodSpec")]
      [] cls = "V1PodSpec" ->
            [node_name |-> Prim("str"),
             containers |-> ListOf("V1Container")]
      [] cls = "V1Container" ->
            [name |-> Prim("str"), image |-> Prim("str"),
             args |-> ListOf("str")]
      [] cls = "V1beta1Ingress" ->
            [kind |-> Prim("str"), metadata |-> Class("V1ObjectMeta"),
             spec |-> Class("V1beta1IngressSpec")]
      [] cls = "V1beta1IngressSpec" ->
            [rules |-> ListOf("V1beta1IngressRule")]
      [] cls = "V1beta1IngressRule" ->
            [host |-> Prim("str"),
             http |-> Class("V1beta1HTTPIngressRuleValue")]
      [] cls = "V1beta1HTTPIngressRuleValue" ->
            [path |-> Prim("str")]
      [] cls = "V1PodCondition" ->
            [type |-> Prim("str"), status |-> Prim("str")]
      [] cls = "V1beta1CustomResourceColumnDefinition" ->
            [name |-> Prim("str"), type |-> Prim("str"),
             description |-> Prim("str")]

\* attributes whose generated setter raises ValueError on None
RequiredAttrs(cls) == IF cls = "V1Container" THEN {"name"} ELSE {}

\* self.model_class_from_name(cls)(): a fresh object, every attribute None
ModelClassFromName(cls) ==
    Obj(cls, [f \in DOMAIN SwaggerTypes(cls) |-> NoneV])

\* self.attribute_to_snake(key) of the client helper; the attribute names of
\* the schema above hold no uppercase letter and come back unchanged
AttributeToSnake(key) == key

\* setattr(obj, name, value) through the generated setter
SetAttr(obj, name, value) ==
    IF value.t = "NoneType" /\ name \in RequiredAttrs(obj.t)
    THEN Raise("ValueError")
    ELSE IF name \in DOMAIN obj.v
    THEN Ok(Obj(obj.t, [obj.v EXCEPT ![name] = value]))
    ELSE Ok(obj)

\* first error of a sequence of outcomes, or the sequence of their values
Collect(rs) ==
    IF \E i \in DOMAIN rs : ~rs[i].ok
    THEN Raise(rs[CHOOSE i \in DOMAIN rs :
                    ~rs[i].ok /\ \A j \in DOMAIN rs : ~rs[j].ok => i <= j].err)
    ELSE Ok([i \in DOMAIN rs |-> rs[i].val])

\* the rest of a helper after a step that may raise: k applied to the value
\* of the step, or the step's error
Bind(r, k(_)) == IF r.ok THEN k(r.val) ELSE r

RECURSIVE CompareDictItems(_, _, _)
RECURSIVE SetObjAttribute(_, _, _)
RECURSIVE CompareObjList(_, _, _)
RECURSIVE KeyedItems(_, _, _, _, _)
RECURSIVE UnkeyedItems(_, _, _, _)
RECURSIVE MatchedItemAttrs(_, _, _, _)
RECURSIVE UpdateObjectProperties(_, _, _)

\* the loop of __compare_dict over the items of request_value
CompareDictItems(src_value, request_value, keys) ==
    IF keys = {} THEN Ok(src_value)
    ELSE LET item == CHOOSE k \in keys : TRUE
             value == request_value.v[item]
             rest == keys \ {item}
         IN  IF value.t \in {"str", "int", "bool"}
             THEN IF src_value.t # "dict" THEN Raise("TypeError")
                  ELSE CompareDictItems(
                          Dct([k \in DOMAIN src_value.v \cup {item} |->
                                 IF k = item THEN value ELSE src_value.v[k]]),
                          request_value, rest)
             ELSE IF value.t \in {"list", "dict"}
             THEN IF src_value.t # "dict" THEN Raise("TypeError")
                  ELSE IF item \notin DOMAIN src_value.v THEN Raise("KeyError")
                  ELSE Bind(IF value.t = "list"
                            THEN CompareList(src_value.v[item], value)
                            ELSE IF ~Truthy(value)
                            THEN Ok(src_value.v[item])
                            ELSE CompareDictItems(src_value.v[item], value,
                                                  DOMAIN value.v),
                            LAMBDA x : CompareDictItems(
                                Dct([src_value.v EXCEPT ![item] = x]),
                                request_value, rest))
             ELSE Raise("KubernetesException")

\* __compare_dict: update src_value with the items of request_value
CompareDict(src_value, request_value) ==
    IF ~Truthy(request_value) THEN Ok(src_value)
    ELSE CompareDictItems(src_value, request_value, DOMAIN request_value.v)

\* __set_obj_attribute: walk property_path from obj and apply param_value at
\* its end by the declared kind of the property
SetObjAttribute(obj, property_path, param_value) ==
    IF Len(property_path) = 0 THEN Ok(obj)
    ELSE LET prop_name == Head(property_path)
             rest == Tail(property_path)
         IN  IF prop_name \notin DOMAIN SwaggerTypes(obj.t)
             THEN Raise("KeyError")
             ELSE LET prop_kind == SwaggerTypes(obj.t)[prop_name]
                      cur == obj.v[prop_name]
                      put(x) == Obj(obj.t, [obj.v EXCEPT ![prop_name] = x])
                  IN  CASE prop_kind.k = "prim" ->
                             LET r == SetAttr(obj, prop_name, param_value)
                             IN  IF r.ok
                                 THEN SetObjAttribute(r.val, rest, param_value)
                                 ELSE IF param_value.t = "NoneType"
                                 THEN SetObjAttribute(obj, rest, param_value)
                                 ELSE Raise("KubernetesException")
                        [] prop_kind.k = "dict" ->
                             Bind(IF ~Truthy(cur) THEN Ok(param_value)
                                  ELSE CompareDict(cur, param_value),
                                  LAMBDA x : SetObjAttribute(put(x), rest,
                                                             param_value))
                        [] prop_kind.k = "list" ->
                             LET lst == IF cur.t = "NoneType" THEN Lst(<<>>)
                                        ELSE cur
                                 obj_type == prop_kind.of
                             IN  Bind(IF obj_type \notin PRIMITIVES
                                         /\ obj_type \notin {"list", "dict"}
                                      THEN CompareObjList(lst, param_value,
                                                          obj_type)
                                      ELSE CompareList(lst, param_value),
                                      LAMBDA x : SetObjAttribute(put(x), rest,
                                                                 param_value))
                        [] OTHER ->
                             LET sub_obj == IF ~Truthy(cur)
                                            THEN ModelClassFromName(prop_kind.of)
                                            ELSE cur
                             IN  Bind(SetObjAttribute(sub_obj, rest,
                                                      param_value),
                                      LAMBDA x : Ok(put(x)))

\* the update of a matched list entry, __compare_obj_list lines 616-656:
\* each attribute of the request item is applied to obj by its kind
MatchedItemAttrs(obj, item, keys, sample_cls) ==
    IF keys = {} THEN Ok(obj)
    ELSE LET key == CHOOSE k \in keys : TRUE
             value == item.v[key]
             snake_key == AttributeToSnake(key)
             known == snake_key \in DOMAIN SwaggerTypes(sample_cls)
             item_kind == SwaggerTypes(sample_cls)[snake_key]
             cur == obj.v[snake_key]
             put(x) == Obj(obj.t, [obj.v EXCEPT ![snake_key] = x])
             lst == IF cur.t = "NoneType" THEN Lst(<<>>) ELSE cur
             param_obj == IF ~Truthy(cur)
                          THEN ModelClassFromName(item_kind.of)
                          ELSE cur
         IN  Bind(IF (known /\ item_kind.k = "prim") \/ value.t \in PRIMITIVES
                  THEN SetAttr(obj, snake_key, value)
                  ELSE IF known /\ item_kind.k = "list"
                  THEN Bind(IF item_kind.of \notin {"str", "int", "bool"}
                            THEN CompareObjList(lst, value, item_kind.of)
                            ELSE CompareList(lst, value),
                            LAMBDA x : Ok(put(x)))
                  ELSE IF known /\ item_kind.k = "dict"
                  THEN Bind(CompareDict(cur, value), LAMBDA x : Ok(put(x)))
                  ELSE IF known /\ value.t = "dict"
                  THEN Bind(UpdateObjectProperties(param_obj, value,
                                                   DOMAIN value.v),
                            LAMBDA x : Ok(put(x)))
                  ELSE Raise("KubernetesException"),
                  LAMBDA x : MatchedItemAttrs(x, item, keys \ {key},
                                              sample_cls))

\* the keyed loop of __compare_obj_list, lines 600-660, from request item i on
KeyedItems(src_value, request_value, i, obj_class, key_name) ==
    IF i > Len(request_value) THEN Ok(Lst(src_value))
    ELSE LET item == request_value[i]
             hit(j) == src_value[j].v[key_name] = item.v[key_name]
             found == \E j \in DOMAIN src_value : hit(j)
             upd == Collect([j \in DOMAIN src_value |->
                        IF hit(j)
                        THEN MatchedItemAttrs(src_value[j], item,
                                              DOMAIN item.v, obj_class)
                        ELSE Ok(src_value[j])])
             new == UpdateObjectProperties(ModelClassFromName(obj_class),
                                           item, DOMAIN item.v)
         IN  IF found
             THEN Bind(upd, LAMBDA x : KeyedItems(x, request_value, i + 1,
                                                  obj_class, key_name))
             ELSE Bind(new, LAMBDA x : KeyedItems(Append(src_value, x),
                                                  request_value, i + 1,
                                                  obj_class, key_name))

\* the loop of __compare_obj_list without a key, lines 663-678: an entry
\* matches when each attribute the item names equals the item's value
UnkeyedItems(src_value, request_value, i, obj_class) ==
    IF i > Len(request_value) THEN Ok(Lst(src_value))
    ELSE LET item == request_value[i]
             unknown == \E k \in DOMAIN item.v :
                           AttributeToSnake(k) \notin DOMAIN SwaggerTypes(obj_class)
             found == \E j \in DOMAIN src_value :
                         \A k \in DOMAIN item.v :
                             src_value[j].v[AttributeToSnake(k)] = item.v[k]
             new == UpdateObjectProperties(ModelClassFromName(obj_class),
                                           item, DOMAIN item.v)
         IN  IF unknown /\ Len(src_value) > 0 THEN Raise("AttributeError")
             ELSE IF ~unknown /\ found
             THEN UnkeyedItems(src_value, request_value, i + 1, obj_class)
             ELSE Bind(new, LAMBDA x : UnkeyedItems(Append(src_value, x),
                                                    request_value, i + 1,
                                                    obj_class))

\* mutant: no reference key is ever chosen, every list is merged keyless
KeyName_Keyless(request_value, obj_class) == "none"

\* mutant: the key is the first of name, type that the class has and every
\* request element provides
KeyName_FirstProvided(request_value, obj_class) ==
    LET given(key) ==
            /\ key \in DOMAIN SwaggerTypes(obj_class)
            /\ \A i \in DOMAIN request_value :
                  /\ key \in DOMAIN request_value[i].v
                  /\ Truthy(request_value[i].v[key])
    IN  IF given("name") THEN "name"
        ELSE IF given("type") THEN "type" ELSE "none"

\* the choice of the reference key, __compare_obj_list lines 580-596
KeyName(request_value, obj_class) ==
    LET has(key) == key \in DOMAIN SwaggerTypes(obj_class)
        key_name == IF has("name") THEN "name"
                    ELSE IF has("type") THEN "type" ELSE "none"
    IN  IF key_name # "none"
           /\ \A i \in DOMAIN request_value :
                 /\ key_name \in DOMAIN request_value[i].v
                 /\ Truthy(request_value[i].v[key_name])
        THEN key_name
        ELSE "none"

\* __compare_obj_list: merge a request list of dicts into a list of objects
CompareObjList(src_value, request_value, obj_class) ==
    IF ~Truthy(request_value) THEN Ok(src_value)
    ELSE LET key_name == KeyName(request_value.v, obj_class)
         IN  IF key_name # "none"
             THEN KeyedItems(src_value.v, request_value.v, 1, obj_class,
                             key_name)
             ELSE UnkeyedItems(src_value.v, request_value.v, 1, obj_class)

\* __update_object_properties: apply the items of a dict to an object
UpdateObjectProperties(obj, item, keys) ==
    IF keys = {} THEN Ok(obj)
    ELSE LET key == CHOOSE k \in keys : TRUE
             value == item.v[key]
             snake_key == AttributeToSnake(key)
         IN  IF snake_key \notin DOMAIN SwaggerTypes(obj.t)
             THEN Raise("KubernetesException")
             ELSE LET kind0 == SwaggerTypes(obj.t)[snake_key]
                      cur == obj.v[snake_key]
                      sub == IF ~Truthy(cur)
                             THEN ModelClassFromName(kind0.of)
                             ELSE cur
                  IN  Bind(IF kind0.k \in {"prim", "list", "dict"}
                           THEN SetObjAttribute(obj, <<snake_key>>, value)
                           ELSE IF value.t # "dict"
                           THEN Raise("AttributeError")
                           ELSE Bind(UpdateObjectProperties(sub, value,
                                                            DOMAIN value.v),
                                     LAMBDA x : Ok(Obj(obj.t, [obj.v EXCEPT
                                                    ![snake_key] = x]))),
                           LAMBDA x : UpdateObjectProperties(x, item,
                                                             keys \ {key}))

(***************************************************************************)
(* Inputs of the merge operations                                          *)
(***************************************************************************)
\* sequences over S of length at most n
SeqsUpTo(S, n) == UNION {[1..m -> S] : m \in 0..n}

\* lists of primitives: the existing list and the request list
PrimLists == {Lst(s) : s \in SeqsUpTo(PrimUniverse, MaxLen)}

\* a V1Container as the server returns it
Container(name, image, args) ==
    Obj("V1Container", [name |-> name, image |-> image, args |-> args])

\* values left alone by the operations that do not use them
NoParams == [p \in {} |-> NoneV]
NoRet == [changed |-> FALSE, result |-> Dct(EmptyMap)]
NoPrev == [changed |-> FALSE, calls |-> <<>>, end |-> "none"]
NoLookup == [kind |-> <<>>]
\* no resource definition: resource_definition is None
NoResource == [given |-> FALSE, kind |-> "none", apiVersion |-> NoneV,
               name |-> NoneV, namespace |-> NoneV]
NoModule == [kind |-> "none", api_version |-> NoneV,
             resource_definition |-> NoResource, src |-> NoneV,
             file |-> NoResource, used_api_version |-> NoneV]

DriverIdle ==
    /\ kind = "none" /\ params = NoParams /\ state = "present"
    /\ force = FALSE /\ check_mode = FALSE /\ server = NoneV
    /\ srvFault = "none" /\ srvStatus = NoneV /\ existing = NoneV /\ calls = <<>>
    /\ action = "none"
    /\ ret = NoRet /\ run = 0 /\ prev = NoPrev /\ lookup = NoLookup
    /\ module = NoModule

driverVars == <<kind, params, state, force, check_mode, server, srvFault, srvStatus,
                existing, calls, action, ret, run, prev, module, lookup>>

(***************************************************************************)
(* List of primitives: __set_obj_attribute on a list[str] property         *)
(***************************************************************************)
InitList ==
    /\ pc = "list_ready"
    /\ hashOrder \in Permutations3
    /\ src \in PrimLists \cup {NoneV}
    /\ req \in PrimLists
    /\ out = Ok(NoneV)
    /\ DriverIdle

\* __set_obj_attribute(obj, ['args'], request) on a container whose args
\* attribute is the existing list (None when absent)
MergeList ==
    /\ pc = "list_ready"
    /\ out' = SetObjAttribute(Container(Str("x"), NoneV, src), <<"args">>, req)
    /\ pc' = "list_done"
    /\ UNCHANGED <<hashOrder, src, req>>
    /\ UNCHANGED driverVars

NextList == MergeList

SpecList == InitList /\ [][NextList]_vars

\* the list the merge left in the property
MergedList == out.val.v["args"].v
ExistingList == IF src.t = "NoneType" THEN <<>> ELSE src.v
NoDuplicates(s) == \A i, j \in DOMAIN s : i # j => s[i] # s[j]

\* C9: merging a request list R of primitives into an existing list E gives a
\* list whose elements are those of E and of R, that keeps E's elements in
\* place, and that has no duplicate whenever E has none (E empty or absent
\* included).
C9_UnionNoDuplicates ==
    pc = "list_done" =>
        /\ out.ok
        /\ Range(MergedList) = Range(ExistingList) \cup Range(req.v)
        /\ Len(MergedList) >= Len(ExistingList)
        /\ \A i \in DOMAIN ExistingList : MergedList[i] = ExistingList[i]
        /\ NoDuplicates(ExistingList) => NoDuplicates(MergedList)

(***************************************************************************)
(* List of objects: __compare_obj_list on a list[V1Container] property     *)
(***************************************************************************)
\* a request element: the keys it names, with their values
Item(f) == Dct(f)

\* the existing entries drawn: containers as the server returns them
ContainerUniverse ==
    {Container(Str(n), i, NoneV) : n \in {"x", "y"}, i \in {NoneV, Str("1")}}
    \cup {Container(Str("x"), Str("1"), Lst(<<Str("a")>>))}

\* the request elements drawn: with and without the key, with an image, a
\* null image, no image, or a list of arguments
ItemUniverse ==
    {Item([name |-> Str(n), image |-> i]) :
        n \in {"x", "y"}, i \in {NoneV, Str("2"), Str("3")}}
    \cup {Item([name |-> Str(n)]) : n \in {"x", "y"}}
    \cup {Item([name |-> Str("x"), args |-> Lst(<<Str("b")>>)]),
          Item([image |-> Str("2")])}

InitObjList ==
    /\ pc = "objlist_ready"
    /\ hashOrder = <<Str("a"), Str("b"), Str("c")>>
    /\ src \in {Lst(s) : s \in SeqsUpTo(ContainerUniverse, MaxEntries)}
    /\ req \in {Lst(s) : s \in SeqsUpTo(ItemUniverse, MaxItems)}
    /\ out = Ok(NoneV)
    /\ DriverIdle

\* __compare_obj_list(existing, request, 'V1Container', ...)
MergeObjList ==
    /\ pc = "objlist_ready"
    /\ out' = CompareObjList(src, req, "V1Container")
    /\ pc' = "objlist_done"
    /\ UNCHANGED <<hashOrder, src, req>>
    /\ UNCHANGED driverVars

NextObjList == MergeObjList

SpecObjList == InitObjList /\ [][NextObjList]_vars

(***************************************************************************)
(* __compare_obj_list over element classes with a name, a type, both or    *)
(* neither                                                                 *)
(***************************************************************************)
\* the element classes drawn and, for each, the values drawn for its
\* attributes
ElementValues(cls) ==
    CASE cls = "V1Container" -> [name |-> {"a", "b"}, image |-> {"1", "2"}]
      [] cls = "V1PodCondition" -> [type |-> {"s", "t"}, status |-> {"1", "2"}]
      [] cls = "V1beta1CustomResourceColumnDefinition" ->
            [name |-> {"a", "b"}, type |-> {"s"}, description |-> {"1", "2"}]
      [] cls = "V1beta1IngressRule" -> [host |-> {"a", "b", "c"}]
ElementClasses ==
    {"V1Container", "V1PodCondition", "V1beta1CustomResourceColumnDefinition",
     "V1beta1IngressRule"}
\* one value for each attribute drawn
ElementChoices(cls) ==
    {g \in [DOMAIN ElementValues(cls) ->
               UNION {ElementValues(cls)[f] : f \in DOMAIN ElementValues(cls)}] :
        \A f \in DOMAIN g : g[f] \in ElementValues(cls)[f]}
\* existing entries: objects of the class with every drawn attribute set
ElementObjects(cls) ==
    {Obj(cls, [f \in DOMAIN SwaggerTypes(cls) |->
                 IF f \in DOMAIN g THEN Str(g[f]) ELSE NoneV]) :
        g \in ElementChoices(cls)}
\* request elements: dicts that name some of the attributes
ElementItems(cls) ==
    UNION {{Item([f \in S |-> Str(g[f])]) : g \in ElementChoices(cls)} :
              S \in (SUBSET DOMAIN ElementValues(cls)) \ {{}}}

InitKeyChoice ==
    /\ pc = "keyed_ready"
    /\ hashOrder = <<Str("a"), Str("b"), Str("c")>>
    /\ kind \in ElementClasses
    /\ src \in {Lst(s) : s \in SeqsUpTo(ElementObjects(kind), MaxEntries)}
    /\ req \in {Lst(s) : s \in SeqsUpTo(ElementItems(kind), MaxItems)}
    /\ out = Ok(NoneV)
    /\ params = NoParams /\ state = "present"
    /\ force = FALSE /\ check_mode = FALSE /\ server = NoneV
    /\ srvFault = "none" /\ srvStatus = NoneV /\ existing = NoneV
    /\ calls = <<>> /\ action = "none"
    /\ ret = NoRet /\ run = 0 /\ prev = NoPrev /\ lookup = NoLookup
    /\ module = NoModule

\* __compare_obj_list(existing, request, obj_class, ...)
MergeKeyChoice ==
    /\ pc = "keyed_ready"
    /\ out' = CompareObjList(src, req, kind)
    /\ pc' = "keyed_done"
    /\ UNCHANGED <<hashOrder, src, req>>
    /\ UNCHANGED driverVars

NextKeyChoice == MergeKeyChoice

SpecKeyChoice == InitKeyChoice /\ [][NextKeyChoice]_vars

\* every request element carries the reference key, name
ByKey ==
    /\ Len(req.v) > 0
    /\ \A i \in DOMAIN req.v : /\ "name" \in DOMAIN req.v[i].v
                                /\ Truthy(req.v[i].v["name"])
NamesOf(s) == {s[i].v["name"] : i \in DOMAIN s}
\* the last request element of that name that names attribute f, 0 if none
LastNaming(nm, f) ==
    LET S == {i \in DOMAIN req.v :
                 req.v[i].v["name"] = nm /\ f \in DOMAIN req.v[i].v}
    IN  IF S = {} THEN 0 ELSE CHOOSE i \in S : \A j \in S : j <= i
\* every argument a request element of that name supplies
ArgsNamed(nm) ==
    UNION {Range(req.v[i].v["args"].v) :
              i \in {j \in DOMAIN req.v : req.v[j].v["name"] = nm
                                          /\ "args" \in DOMAIN req.v[j].v}}
ArgsOf(o) == IF o.v["args"].t = "NoneType" THEN {} ELSE Range(o.v["args"].v)

\* C8: in a merge by reference key, existing entries keep their position and
\* none is removed; an entry whose key a request element carries takes that
\* element's fields and keeps the fields the request does not name; no entry
\* is added for a matched key; each key no entry carries is appended once,
\* after the existing entries.
C8_MergeByKey ==
    (pc = "objlist_done" /\ ByKey) =>
        LET E == src.v
            M == out.val.v
            added == {i \in DOMAIN M : i > Len(E)}
        IN  /\ out.ok
            /\ Len(M) >= Len(E)
            /\ \A i \in DOMAIN E : M[i].v["name"] = E[i].v["name"]
            /\ \A i \in DOMAIN M :
                  LET l == LastNaming(M[i].v["name"], "image")
                  IN  M[i].v["image"] =
                         IF l # 0 THEN req.v[l].v["image"]
                         ELSE IF i <= Len(E) THEN E[i].v["image"]
                         ELSE NoneV
            /\ \A i \in DOMAIN M :
                  ArgsOf(M[i]) = (IF i <= Len(E) THEN ArgsOf(E[i]) ELSE {})
                                    \cup ArgsNamed(M[i].v["name"])
            /\ {M[i].v["name"] : i \in added} = NamesOf(req.v) \ NamesOf(E)
            /\ \A i, j \in added : i # j => M[i].v["name"] # M[j].v["name"]

\* the case of the specification: existing [{name:x, image:1}] and request
\* [{name:x, image:2}, {name:y, image:3}] give [{name:x, image:2},
\* {name:y, image:3}]
C8_Witness ==
    /\ pc = "objlist_done"
    /\ src = Lst(<<Container(Str("x"), Str("1"), NoneV)>>)
    /\ req = Lst(<<Item([name |-> Str("x"), image |-> Str("2")]),
                   Item([name |-> Str("y"), image |-> Str("3")])>>)
    /\ out = Ok(Lst(<<Container(Str("x"), Str("2"), NoneV),
                      Container(Str("y"), Str("3"), NoneV)>>))

(***************************************************************************)
(* Argument spec, request body and object materialization                  *)
(***************************************************************************)
\* the model class of a kind (helper.model)
ModelOf(k) ==
    CASE k = "Secret" -> "V1Secret"
      [] k = "Pod" -> "V1Pod"
      [] k = "Ingress" -> "V1beta1Ingress"

\* helper.argspec: the entries of each kind that carry a property_path, as
\* __transform_properties emits them for the schema above
ArgSpec(k) ==
    LET meta == [name |-> [type |-> "str", aliases |-> {},
                           property_path |-> <<"metadata", "name">>],
                 namespace |-> [type |-> "str", aliases |-> {},
                                property_path |-> <<"metadata", "namespace">>],
                 labels |-> [type |-> "dict", aliases |-> {},
                             property_path |-> <<"metadata", "labels">>],
                 annotations |-> [type |-> "dict", aliases |-> {},
                                  property_path |-> <<"metadata", "annotations">>]]
    IN  CASE k = "Secret" ->
                meta @@ [data |-> [type |-> "dict", aliases |-> {},
                                   property_path |-> <<"data">>],
                         string_data |-> [type |-> "dict", aliases |-> {},
                                          property_path |-> <<"string_data">>]]
          [] k = "Pod" ->
                meta @@ [spec_node_name |->
                            [type |-> "str", aliases |-> {"node_name"},
                             property_path |-> <<"spec", "node_name">>],
                         spec_containers |->
                            [type |-> "list", aliases |-> {"containers"},
                             property_path |-> <<"spec", "containers">>]]
          [] k = "Ingress" ->
                meta @@ [spec_rules |->
                            [type |-> "list", aliases |-> {"rules"},
                             property_path |-> <<"spec", "rules">>]]

\* mutant: a name that is no key is taken for the name of the object
FindArgSpec_Unchecked(k, module_param_name) ==
    IF module_param_name \in DOMAIN ArgSpec(k)
    THEN Ok(ArgSpec(k)[module_param_name])
    ELSE Ok(ArgSpec(k)["name"])

\* find_arg_spec: the entry of that name, or the entry declaring it as an
\* alias; KubernetesException when there is none
FindArgSpec(k, module_param_name) ==
    IF module_param_name \in DOMAIN ArgSpec(k)
    THEN Ok(ArgSpec(k)[module_param_name])
    ELSE IF \E key \in DOMAIN ArgSpec(k) :
                module_param_name \in ArgSpec(k)[key].aliases
    THEN Ok(ArgSpec(k)[CHOOSE key \in DOMAIN ArgSpec(k) :
                          module_param_name \in ArgSpec(k)[key].aliases])
    ELSE Raise("KubernetesException")

\* string_utils.snake_case_to_camel(name, upper_case_first=False) on the
\* names of the schema
SnakeCaseToCamel(name) ==
    CASE name = "node_name" -> "nodeName"
      [] name = "string_data" -> "stringData"
      [] OTHER -> name

\* base64.b64encode on the values drawn
B64Encode(value) ==
    CASE value = Str("a") -> Str("YQ==")
      [] value = Str("b") -> Str("Yg==")
      [] value = Str("") -> Str("")
      [] OTHER -> Str("Yw==")

\* __property_name_to_camel: keys of labels, annotations and selectors are
\* kept, every other key goes to camelCase
PropertyNameToCamel(param_name, property_name) ==
    IF param_name \notin {"labels", "annotations"}
    THEN SnakeCaseToCamel(property_name)
    ELSE property_name

RECURSIVE DictKeysToCamel(_, _)
\* __dict_keys_to_camel and __list_keys_to_camel on a non-empty list: keys go
\* to camelCase, items whose value is falsy are dropped
ListKeysToCamel(param_name, param_list) ==
    IF param_list.v[1].t = "dict"
    THEN Lst([i \in DOMAIN param_list.v |->
                DictKeysToCamel(param_name, param_list.v[i])])
    ELSE param_list

DictKeysToCamel(param_name, param_dict) ==
    LET kept == {k \in DOMAIN param_dict.v : Truthy(param_dict.v[k])}
        conv(value) ==
            IF value.t = "list" THEN ListKeysToCamel(param_name, value)
            ELSE IF value.t = "dict" THEN DictKeysToCamel(param_name, value)
            ELSE value
    IN  Dct([c \in {PropertyNameToCamel(param_name, k) : k \in kept} |->
               conv(param_dict.v[CHOOSE k \in kept :
                                    PropertyNameToCamel(param_name, k) = c])])

RECURSIVE AddPathToDict(_, _, _, _, _)
\* __add_path_to_dict: place param_value in request_dict at the end of path
AddPathToDict(request_dict, param_name, param_value, path, param_type) ==
    LET p == SnakeCaseToCamel(Head(path))
        put(x) == Dct([k \in DOMAIN request_dict.v \cup {p} |->
                         IF k = p THEN x ELSE request_dict.v[k]])
    IN  IF Len(path) > 1
        THEN LET sub == IF p \in DOMAIN request_dict.v
                           /\ request_dict.v[p].t # "NoneType"
                        THEN request_dict.v[p] ELSE Dct(EmptyMap)
             IN  Bind(AddPathToDict(sub, param_name, param_value,
                                    Tail(path), param_type),
                      LAMBDA x : Ok(put(x)))
        ELSE IF param_type = "dict"
        THEN Ok(put(DictKeysToCamel(param_name, param_value)))
        ELSE IF param_type = "list"
        THEN IF Len(param_value.v) = 0 THEN Raise("IndexError")
             ELSE Ok(put(ListKeysToCamel(param_name, param_value)))
        ELSE Ok(put(param_value))

RECURSIVE RequestBodyParams(_, _, _, _)
\* the loop of request_body_from_params over the module parameters
RequestBodyParams(k, module_params, request, names) ==
    IF names = {} THEN Ok(request)
    ELSE LET param_name == CHOOSE n \in names : TRUE
             param_value == module_params[param_name]
             spec == FindArgSpec(k, param_name)
         IN  IF ~spec.ok THEN spec
             ELSE IF param_value.t = "NoneType"
             THEN RequestBodyParams(k, module_params, request,
                                    names \ {param_name})
             ELSE Bind(AddPathToDict(request, param_name, param_value,
                                     spec.val.property_path, spec.val.type),
                       LAMBDA x : RequestBodyParams(k, module_params, x,
                                                    names \ {param_name}))

\* request_body_from_params: the body CREATE and REPLACE send
RequestBodyFromParams(k, module_params) ==
    RequestBodyParams(k, module_params, Dct([kind |-> Str(k)]),
                      DOMAIN module_params)

RECURSIVE ObjectParams(_, _, _, _)
\* the loop of object_from_params over the module parameters
ObjectParams(k, module_params, obj, names) ==
    IF names = {} THEN Ok(obj)
    ELSE LET param_name == CHOOSE n \in names : TRUE
             param_value == module_params[param_name]
             spec == FindArgSpec(k, param_name)
         IN  IF ~spec.ok THEN spec
             ELSE IF param_value.t = "NoneType"
             THEN ObjectParams(k, module_params, obj, names \ {param_name})
             ELSE Bind(SetObjAttribute(obj, spec.val.property_path,
                                       param_value),
                       LAMBDA x : ObjectParams(k, module_params, x,
                                               names \ {param_name}))

\* mutant: string_data goes into data as it is
SecretStringData_Raw(obj) ==
    LET sd == obj.v["string_data"].v
        data == IF obj.v["data"].t = "NoneType" THEN EmptyMap
                ELSE obj.v["data"].v
    IN  Obj(obj.t, [obj.v EXCEPT
            !["data"] = Dct([key \in DOMAIN data \cup DOMAIN sd |->
                               IF key \in DOMAIN sd THEN sd[key]
                               ELSE data[key]]),
            !["string_data"] = NoneV])

\* the Secret rule of object_from_params, lines 340-351: string_data goes
\* base64-encoded into data and is cleared
SecretStringData(obj) ==
    LET sd == obj.v["string_data"].v
        data == IF obj.v["data"].t = "NoneType" THEN EmptyMap
                ELSE obj.v["data"].v
    IN  Obj(obj.t, [obj.v EXCEPT
            !["data"] = Dct([key \in DOMAIN data \cup DOMAIN sd |->
                               IF key \in DOMAIN sd THEN B64Encode(sd[key])
                               ELSE data[key]]),
            !["string_data"] = NoneV])

\* object_from_params on an object to update
ObjectFromParams(k, module_params, obj) ==
    Bind(ObjectParams(k, module_params, obj, DOMAIN module_params),
         LAMBDA x : IF k = "Secret" /\ Truthy(x.v["string_data"])
                    THEN Ok(SecretStringData(x))
                    ELSE Ok(x))

(***************************************************************************)
(* The collaborator: the API server behind helper.get_object,              *)
(* create_object, replace_object, patch_object and delete_object           *)
(***************************************************************************)
RECURSIVE FromBody(_, _)
\* the object the client returns for a stored body: each attribute is read
\* from its camelCase key, nested bodies become objects of the declared class
FromBody(cls, body) ==
    LET conv(kd, x) ==
            IF x.t = "NoneType" THEN x
            ELSE IF kd.k = "obj" THEN FromBody(kd.of, x)
            ELSE IF kd.k = "list" /\ kd.of \notin PRIMITIVES
            THEN Lst([i \in DOMAIN x.v |-> FromBody(kd.of, x.v[i])])
            ELSE x
    IN  Obj(cls, [a \in DOMAIN SwaggerTypes(cls) |->
                    IF SnakeCaseToCamel(a) \in DOMAIN body.v
                    THEN conv(SwaggerTypes(cls)[a], body.v[SnakeCaseToCamel(a)])
                    ELSE NoneV])

\* what the server keeps of a body: a Secret's stringData is stored
\* base64-encoded in data and is never returned
Stored(k, body) ==
    LET o == FromBody(ModelOf(k), body)
    IN  IF k = "Secret" /\ Truthy(o.v["string_data"])
        THEN SecretStringData(o)
        ELSE o

RECURSIVE ToDict(_)
\* obj.to_dict(): the object as nested dicts, unset attributes included
ToDict(x) ==
    IF x.t = "list" THEN Lst([i \in DOMAIN x.v |-> ToDict(x.v[i])])
    ELSE IF x.t \in {"NoneType", "str", "int", "bool", "dict"} THEN x
    ELSE Dct([a \in DOMAIN x.v |-> ToDict(x.v[a])])

\* remove_secret_data of module_utils/k8s/common.py: its body is a pass
\* statement under the statements it has commented out, so the dict is left
\* as it is
RemoveSecretDataCommon(obj_dict) == obj_dict

\* KubernetesAnsibleModule.exit_json: a Secret or SecretList result goes
\* through remove_secret_data, itself or item by item, and is handed over
ExitJson(return_attributes) ==
    LET result == return_attributes.result
        has(key) == key \in DOMAIN result.v /\ Truthy(result.v[key])
    IN  IF Truthy(result) /\ "kind" \in DOMAIN result.v
           /\ result.v["kind"] \in {Str("Secret"), Str("SecretList")}
        THEN IF has("data")
             THEN [return_attributes EXCEPT
                      !.result = RemoveSecretDataCommon(result)]
             ELSE IF has("items")
             THEN [return_attributes EXCEPT
                      !.result = Dct([result.v EXCEPT !["items"] =
                          Lst([i \in DOMAIN result.v["items"].v |->
                                 RemoveSecretDataCommon(
                                     result.v["items"].v[i])])])]
             ELSE return_attributes
        ELSE return_attributes

\* helper.objects_match(existing, k8s_obj): no difference between the two
ObjectsMatch(a, b) == a = b

(***************************************************************************)
(* Inputs of the reconciliation driver                                     *)
(***************************************************************************)
Kinds == {"Pod", "Ingress", "Secret", "PodList"}
IsListKind(k) == k = "PodList"

Labels == {NoneV, Dct([k |-> Str("a")])}
ContainerParams ==
    {NoneV,
     Lst(<<>>),
     Lst(<<Item([name |-> Str("x"), image |-> Str("1")])>>),
     Lst(<<Item([name |-> Str("x"), image |-> NoneV])>>),
     Lst(<<Item([name |-> Str("x"), image |-> Str("2")]),
           Item([name |-> Str("y"), image |-> Str("3")])>>)}
RuleParams ==
    {NoneV,
     Lst(<<Item([host |-> Str("a")])>>),
     Lst(<<Item([host |-> Str("a"), http |-> Item([path |-> Str("b")])])>>)}
Annotations == {NoneV, Dct([n \in {"openshift.io/token-secret"} |-> Str("a")])}

\* self.params after the pops of __init__ and remove_aliases, per kind
ParamSets(k) ==
    CASE k = "Pod" ->
            {[name |-> Str("n"), labels |-> l, spec_node_name |-> nn,
              spec_containers |-> c] :
                l \in Labels, nn \in {NoneV, Str("a")}, c \in ContainerParams}
      [] k = "Ingress" ->
            {[name |-> Str("n"), labels |-> l, spec_rules |-> r] :
                l \in Labels, r \in RuleParams}
      [] k = "Secret" ->
            {[name |-> Str("n"), annotations |-> a, data |-> d,
              string_data |-> sd] :
                a \in Annotations,
                d \in {NoneV, Dct([k1 |-> Str("Yg==")])},
                sd \in {NoneV, Dct([k1 |-> Str("a")]),
                        Dct([k2 |-> Str("a")])}}
      [] k = "PodList" -> {[name |-> NoneV]}

\* the objects the server may hold at the start: those a body can leave there
ServerObjects(k) ==
    IF IsListKind(k) THEN {Stored("Pod", b.val) :
                              b \in {RequestBodyFromParams("Pod", p) :
                                        p \in ParamSets("Pod")} \ {Raise("IndexError")}}
    ELSE {Stored(k, b.val) :
             b \in {RequestBodyFromParams(k, p) : p \in ParamSets(k)}
                   \ {Raise("IndexError")}}

Faults == {"none", "get", "mutate"}
\* exc.value.get('status') of the KubernetesException a failing call raises
Statuses == {[t |-> "int", v |-> 403], [t |-> "int", v |-> 500]}
Answers(fault) == IF fault = "none" THEN {NoneV} ELSE Statuses
\* fail_json(msg=..., error=...): what a fatal end hands back
FailJson(msg, error) == [failed |-> TRUE, msg |-> msg, error |-> error]

(***************************************************************************)
(* The reconciliation driver: KubernetesRawModule.execute_module           *)
(***************************************************************************)
Call(op, body) == [op |-> op, body |-> body]
Mutating == {"create", "replace", "patch", "delete"}
Ends == {"done", "failed", "crashed"}

\* the definition and the options of a pass, fixed over the passes
optionVars == <<kind, params, state, force, check_mode, hashOrder, src, req,
                module, lookup>>

Init ==
    /\ pc = "construct"
    /\ hashOrder = <<Str("a"), Str("b"), Str("c")>>
    /\ src = NoneV /\ req = NoneV /\ out = Ok(NoneV)
    /\ kind = "none"
    /\ module \in {[NoModule EXCEPT !.kind = k, !.api_version = Str("v1")] :
                      k \in Kinds}
    /\ params \in ParamSets(module.kind)
    /\ state \in {"present", "absent"}
    /\ force \in BOOLEAN
    /\ check_mode \in BOOLEAN
    /\ server \in {NoneV} \cup ServerObjects(module.kind)
    /\ srvFault \in Faults
    /\ srvStatus \in Answers(srvFault)
    /\ existing = NoneV
    /\ calls = <<>>
    /\ action = "none"
    /\ ret = NoRet
    /\ run = 1
    /\ prev = NoPrev
    /\ lookup = NoLookup

\* __init__, lines 35-64: kind and api_version are popped from the
\* parameters and replaced by those of the resource definition when there is
\* one; src is loaded with load_resource_definition, a method the class does
\* not have (common.py defines load_resource_definitions)
Construct ==
    /\ pc = "construct"
    /\ LET defn == module.resource_definition
           api_version == IF defn.given THEN defn.apiVersion
                          ELSE module.api_version
           kind0 == IF defn.given THEN defn.kind ELSE module.kind
       IN  IF Truthy(module.src)
           THEN pc' = "crashed" /\ UNCHANGED <<kind, module, ret>>
           ELSE /\ module' = [module EXCEPT !.used_api_version = api_version]
                /\ kind' = kind0
                /\ IF ~Truthy(api_version) \/ kind0 = "none"
                   THEN /\ pc' = "failed"
                        /\ ret' = FailJson(IF ~Truthy(api_version)
                                            THEN "Error: no api_version specified"
                                            ELSE "Error: no kind specified",
                                            NoneV)
                   ELSE pc' = "start" /\ ret' = ret
    /\ UNCHANGED <<params, state, force, check_mode, hashOrder, src, req,
                   lookup, out, server, srvFault, srvStatus, existing, calls,
                   action, run, prev>>

\* self.params.get(key): None when the parameter is not there
Param(key) == IF key \in DOMAIN params THEN params[key] ELSE NoneV
\* the name and namespace execute_module reads at lines 141-142
Address == Dct([name |-> Param("name"), namespace |-> Param("namespace")])
\* helper.get_object(name, namespace): the object of that name, None when
\* the server has none
Found ==
    IF /\ Truthy(server)
       /\ Truthy(server.v["metadata"])
       /\ server.v["metadata"].v["name"] = Param("name")
    THEN server ELSE NoneV

\* lines 149-152: a list kind is read and returned
ReadList ==
    /\ pc = "start" /\ IsListKind(kind)
    /\ action' = "READ"
    /\ calls' = Append(calls, Call("get", Address))
    /\ IF srvFault = "get"
       THEN /\ pc' = "failed"
            /\ ret' = FailJson("Failed to retrieve requested object",
                                srvStatus)
       ELSE /\ pc' = "done"
            /\ ret' = ExitJson([changed |-> FALSE,
                       result |-> Dct([kind |-> Str(kind),
                                       items |-> IF Truthy(server)
                                                 THEN Lst(<<ToDict(server)>>)
                                                 ELSE Lst(<<>>)])])
    /\ UNCHANGED <<optionVars, out, server, srvFault, srvStatus, existing, run, prev>>

\* mutant: the fatal end of the fetch does not carry the status
FetchExisting_NoStatus ==
    /\ pc = "start" /\ ~IsListKind(kind)
    /\ calls' = Append(calls, Call("get", Address))
    /\ IF srvFault = "get"
       THEN /\ pc' = "failed" /\ existing' = existing
            /\ ret' = FailJson("Failed to retrieve requested object",
                                NoneV)
       ELSE pc' = "decide" /\ existing' = Found /\ ret' = ret
    /\ UNCHANGED <<optionVars, out, server, srvFault, srvStatus, action, run,
                   prev>>

\* lines 154-158: FETCH_EXISTING
FetchExisting ==
    /\ pc = "start" /\ ~IsListKind(kind)
    /\ calls' = Append(calls, Call("get", Address))
    /\ IF srvFault = "get"
       THEN /\ pc' = "failed" /\ existing' = existing
            /\ ret' = FailJson("Failed to retrieve requested object",
                                srvStatus)
       ELSE pc' = "decide" /\ existing' = Found /\ ret' = ret
    /\ UNCHANGED <<optionVars, out, server, srvFault, srvStatus, action, run,
                   prev>>

\* mutant: the pass that finds nothing to delete reports a change
DeleteAbsent_Changed ==
    /\ pc = "decide" /\ state = "absent" /\ ~Truthy(existing)
    /\ action' = "NOOP"
    /\ pc' = "done"
    /\ ret' = [ret EXCEPT !.changed = TRUE]
    /\ UNCHANGED <<optionVars, out, server, srvFault, srvStatus, existing, calls, run,
                   prev>>

\* lines 160-163: nothing to delete, NOOP
DeleteAbsent ==
    /\ pc = "decide" /\ state = "absent" /\ ~Truthy(existing)
    /\ action' = "NOOP"
    /\ pc' = "done"
    /\ UNCHANGED <<optionVars, out, server, srvFault, srvStatus, existing, calls, ret,
                   run, prev>>

\* mutant: delete is called without looking at check_mode
Delete_Unchecked ==
    /\ pc = "decide" /\ state = "absent" /\ Truthy(existing)
    /\ action' = "DELETE"
    /\ calls' = Append(calls, Call("delete", Address))
    /\ IF srvFault = "mutate"
       THEN /\ pc' = "failed" /\ UNCHANGED server
            /\ ret' = FailJson("Failed to delete object", srvStatus)
       ELSE /\ pc' = "done" /\ server' = NoneV
            /\ ret' = [ret EXCEPT !.changed = TRUE]
    /\ UNCHANGED <<optionVars, out, srvFault, srvStatus, existing, run, prev>>

\* mutant: the delete call is sent twice
Delete_Twice ==
    /\ pc = "decide" /\ state = "absent" /\ Truthy(existing)
    /\ action' = "DELETE"
    /\ IF check_mode
       THEN /\ pc' = "done" /\ ret' = [ret EXCEPT !.changed = TRUE]
            /\ UNCHANGED <<calls, server>>
       ELSE /\ calls' = calls \o <<Call("delete", Address),
                                    Call("delete", Address)>>
            /\ IF srvFault = "mutate"
               THEN /\ pc' = "failed" /\ UNCHANGED server
                    /\ ret' = FailJson("Failed to delete object", srvStatus)
               ELSE /\ pc' = "done" /\ server' = NoneV
                    /\ ret' = [ret EXCEPT !.changed = TRUE]
    /\ UNCHANGED <<optionVars, out, srvFault, srvStatus, existing, run, prev>>

\* lines 164-173: DELETE
Delete ==
    /\ pc = "decide" /\ state = "absent" /\ Truthy(existing)
    /\ action' = "DELETE"
    /\ IF check_mode
       THEN /\ pc' = "done" /\ ret' = [ret EXCEPT !.changed = TRUE]
            /\ UNCHANGED <<calls, server>>
       ELSE /\ calls' = Append(calls, Call("delete", Address))
            /\ IF srvFault = "mutate"
               THEN /\ pc' = "failed" /\ UNCHANGED server
                    /\ ret' = FailJson("Failed to delete object", srvStatus)
               ELSE /\ pc' = "done" /\ server' = NoneV
                    /\ ret' = [ret EXCEPT !.changed = TRUE]
    /\ UNCHANGED <<optionVars, out, srvFault, srvStatus, existing, run, prev>>

\* mutant: the created object is returned without changed being set
Create_Unchanged ==
    /\ pc = "decide" /\ state # "absent" /\ ~Truthy(existing)
    /\ action' = "CREATE"
    /\ \E request_body \in {RequestBodyFromParams(kind, params)} :
           IF ~request_body.ok
           THEN /\ pc' = IF request_body.err = "KubernetesException"
                         THEN "failed" ELSE "crashed"
                /\ ret' = IF request_body.err = "KubernetesException"
                           THEN FailJson("Failed to create object", NoneV)
                           ELSE ret
                /\ UNCHANGED <<calls, server>>
           ELSE IF check_mode
           THEN pc' = "crashed" /\ UNCHANGED <<calls, server, ret>>
           ELSE /\ calls' = Append(calls, Call("create", request_body.val))
                /\ IF srvFault = "mutate"
                   THEN /\ pc' = "failed" /\ UNCHANGED server
                        /\ ret' = FailJson("Failed to create object", srvStatus)
                   ELSE /\ pc' = "done"
                        /\ server' = Stored(kind, request_body.val)
                        /\ ret' = ExitJson([changed |-> FALSE,
                                   result |-> ToDict(server')])
    /\ UNCHANGED <<optionVars, out, srvFault, srvStatus, existing, run, prev>>

\* lines 175-179 and _create, lines 214-227: CREATE
Create ==
    /\ pc = "decide" /\ state # "absent" /\ ~Truthy(existing)
    /\ action' = "CREATE"
    /\ \E request_body \in {RequestBodyFromParams(kind, params)} :
           IF ~request_body.ok
           THEN /\ pc' = IF request_body.err = "KubernetesException"
                         THEN "failed" ELSE "crashed"
                /\ ret' = IF request_body.err = "KubernetesException"
                           THEN FailJson("Failed to create object", NoneV)
                           ELSE ret
                /\ UNCHANGED <<calls, server>>
           ELSE IF check_mode
           THEN pc' = "crashed" /\ UNCHANGED <<calls, server, ret>>
           ELSE /\ calls' = Append(calls, Call("create", request_body.val))
                /\ IF srvFault = "mutate"
                   THEN /\ pc' = "failed" /\ UNCHANGED server
                        /\ ret' = FailJson("Failed to create object", srvStatus)
                   ELSE /\ pc' = "done"
                        /\ server' = Stored(kind, request_body.val)
                        /\ ret' = ExitJson([changed |-> TRUE,
                                   result |-> ToDict(server')])
    /\ UNCHANGED <<optionVars, out, srvFault, srvStatus, existing, run, prev>>

\* mutant: the object is replaced by a delete and a create
Replace_DeleteCreate ==
    /\ pc = "decide" /\ state # "absent" /\ Truthy(existing) /\ force
    /\ action' = "REPLACE"
    /\ \E request_body \in {RequestBodyFromParams(kind, params)} :
           IF ~request_body.ok
           THEN pc' = "crashed" /\ UNCHANGED <<calls, server, ret>>
           ELSE IF check_mode
           THEN pc' = "crashed" /\ UNCHANGED <<calls, server, ret>>
           ELSE /\ calls' = calls \o <<Call("delete", Address),
                                    Call("create", request_body.val)>>
                /\ IF srvFault = "mutate"
                   THEN /\ pc' = "failed" /\ UNCHANGED server
                        /\ ret' = FailJson("Failed to replace object", srvStatus)
                   ELSE /\ pc' = "done"
                        /\ server' = Stored(kind, request_body.val)
                        /\ ret' = ExitJson([changed |-> TRUE,
                                   result |-> ToDict(server')])
    /\ UNCHANGED <<optionVars, out, srvFault, srvStatus, existing, run, prev>>

\* lines 181-192: REPLACE
Replace ==
    /\ pc = "decide" /\ state # "absent" /\ Truthy(existing) /\ force
    /\ action' = "REPLACE"
    /\ \E request_body \in {RequestBodyFromParams(kind, params)} :
           IF ~request_body.ok
           THEN pc' = "crashed" /\ UNCHANGED <<calls, server, ret>>
           ELSE IF check_mode
           THEN pc' = "crashed" /\ UNCHANGED <<calls, server, ret>>
           ELSE /\ calls' = Append(calls, Call("replace", request_body.val))
                /\ IF srvFault = "mutate"
                   THEN /\ pc' = "failed" /\ UNCHANGED server
                        /\ ret' = FailJson("Failed to replace object", srvStatus)
                   ELSE /\ pc' = "done"
                        /\ server' = Stored(kind, request_body.val)
                        /\ ret' = ExitJson([changed |-> TRUE,
                                   result |-> ToDict(server')])
    /\ UNCHANGED <<optionVars, out, srvFault, srvStatus, existing, run, prev>>

\* lines 194-203: the parameters applied to a copy of existing leave it as it
\* is, NOOP
KeepExisting ==
    /\ pc = "decide" /\ state # "absent" /\ Truthy(existing) /\ ~force
    /\ action' = "NOOP"
    /\ \E k8s_obj \in {ObjectFromParams(kind, params, existing)} :
           /\ k8s_obj.ok /\ ObjectsMatch(existing, k8s_obj.val)
           /\ out' = k8s_obj
    /\ pc' = "done"
    /\ ret' = [ret EXCEPT !.result = ToDict(existing)]
    /\ UNCHANGED <<optionVars, server, srvFault, srvStatus, existing, calls, run, prev>>

\* mutant: the difference is sent as a replacement
Patch_AsReplace ==
    /\ pc = "decide" /\ state # "absent" /\ Truthy(existing) /\ ~force
    /\ \E k8s_obj \in {ObjectFromParams(kind, params, existing)} :
           /\ ~(k8s_obj.ok /\ ObjectsMatch(existing, k8s_obj.val))
           /\ action' = IF k8s_obj.ok THEN "PATCH" ELSE "none"
           /\ out' = k8s_obj
           /\ IF ~k8s_obj.ok
              THEN /\ pc' = IF k8s_obj.err = "KubernetesException"
                            THEN "failed" ELSE "crashed"
                   /\ ret' = IF k8s_obj.err = "KubernetesException"
                              THEN FailJson("Failed to patch object", NoneV)
                              ELSE ret
                   /\ UNCHANGED <<calls, server>>
              ELSE IF check_mode
              THEN /\ pc' = "done"
                   /\ ret' = ExitJson([changed |-> TRUE, result |-> ToDict(k8s_obj.val)])
                   /\ UNCHANGED <<calls, server>>
              ELSE /\ calls' = Append(calls, Call("replace", k8s_obj.val))
                   /\ IF srvFault = "mutate"
                      THEN /\ pc' = "failed" /\ UNCHANGED server
                        /\ ret' = FailJson("Failed to patch object", NoneV)
                      ELSE /\ pc' = "done"
                           /\ server' = k8s_obj.val
                           /\ ret' = ExitJson([changed |-> TRUE,
                                      result |-> ToDict(k8s_obj.val)])
    /\ UNCHANGED <<optionVars, srvFault, srvStatus, existing, run, prev>>

\* mutant: the parameters are applied to existing itself, not to a copy
Patch_InPlace ==
    /\ pc = "decide" /\ state # "absent" /\ Truthy(existing) /\ ~force
    /\ \E k8s_obj \in {ObjectFromParams(kind, params, existing)} :
           /\ ~(k8s_obj.ok /\ ObjectsMatch(existing, k8s_obj.val))
           /\ action' = IF k8s_obj.ok THEN "PATCH" ELSE "none"
           /\ out' = k8s_obj
           /\ existing' = IF k8s_obj.ok THEN k8s_obj.val ELSE existing
           /\ IF ~k8s_obj.ok
              THEN /\ pc' = IF k8s_obj.err = "KubernetesException"
                            THEN "failed" ELSE "crashed"
                   /\ ret' = IF k8s_obj.err = "KubernetesException"
                              THEN FailJson("Failed to patch object", NoneV)
                              ELSE ret
                   /\ UNCHANGED <<calls, server>>
              ELSE IF check_mode
              THEN /\ pc' = "done"
                   /\ ret' = ExitJson([changed |-> TRUE, result |-> ToDict(k8s_obj.val)])
                   /\ UNCHANGED <<calls, server>>
              ELSE /\ calls' = Append(calls, Call("patch", k8s_obj.val))
                   /\ IF srvFault = "mutate"
                      THEN /\ pc' = "failed" /\ UNCHANGED server
                        /\ ret' = FailJson("Failed to patch object", NoneV)
                      ELSE /\ pc' = "done"
                           /\ server' = k8s_obj.val
                           /\ ret' = ExitJson([changed |-> TRUE,
                                      result |-> ToDict(k8s_obj.val)])
    /\ UNCHANGED <<optionVars, srvFault, srvStatus, run, prev>>

\* lines 194-212: the parameters change the copy of existing, PATCH
Patch ==
    /\ pc = "decide" /\ state # "absent" /\ Truthy(existing) /\ ~force
    /\ \E k8s_obj \in {ObjectFromParams(kind, params, existing)} :
           /\ ~(k8s_obj.ok /\ ObjectsMatch(existing, k8s_obj.val))
           /\ action' = IF k8s_obj.ok THEN "PATCH" ELSE "none"
           /\ out' = k8s_obj
           /\ IF ~k8s_obj.ok
              THEN /\ pc' = IF k8s_obj.err = "KubernetesException"
                            THEN "failed" ELSE "crashed"
                   /\ ret' = IF k8s_obj.err = "KubernetesException"
                              THEN FailJson("Failed to patch object", NoneV)
                              ELSE ret
                   /\ UNCHANGED <<calls, server>>
              ELSE IF check_mode
              THEN /\ pc' = "done"
                   /\ ret' = ExitJson([changed |-> TRUE, result |-> ToDict(k8s_obj.val)])
                   /\ UNCHANGED <<calls, server>>
              ELSE /\ calls' = Append(calls, Call("patch", k8s_obj.val))
                   /\ IF srvFault = "mutate"
                      THEN /\ pc' = "failed" /\ UNCHANGED server
                        /\ ret' = FailJson("Failed to patch object", NoneV)
                      ELSE /\ pc' = "done"
                           /\ server' = k8s_obj.val
                           /\ ret' = ExitJson([changed |-> TRUE,
                                      result |-> ToDict(k8s_obj.val)])
    /\ UNCHANGED <<optionVars, srvFault, srvStatus, existing, run, prev>>

\* the module is run again with the same definition and options; nothing
\* else touches the server in between
NextPass ==
    /\ pc \in Ends /\ run < MaxRuns
    /\ action' = "none"
    /\ run' = run + 1
    /\ prev' = [changed |-> pc = "done" /\ ret.changed, calls |-> calls,
                end |-> pc]
    /\ pc' = "construct"
    /\ existing' = NoneV /\ calls' = <<>> /\ ret' = NoRet /\ out' = Ok(NoneV)
    /\ srvFault' \in Faults
    /\ srvStatus' \in Answers(srvFault')
    /\ UNCHANGED <<optionVars, server>>

Next ==
    \/ Construct
    \/ ReadList
    \/ FetchExisting
    \/ DeleteAbsent
    \/ Delete
    \/ Create
    \/ Replace
    \/ KeepExisting
    \/ Patch
    \/ NextPass

Spec == Init /\ [][Next]_vars

\* the resource definitions drawn for the module: each of kind, apiVersion,
\* metadata.name and metadata.namespace carried or not
ModuleDefinitions ==
    {[given |-> TRUE, kind |-> k, apiVersion |-> a, name |-> n,
      namespace |-> ns] :
        k \in {"none", "Pod", "PodList"}, a \in {NoneV, Str("v1beta1")},
        n \in {NoneV, Str("m")}, ns \in {NoneV, Str("ns2")}}

\* passes that differ by the top-level kind, api_version, name and namespace
\* and by the resource definition, given inline or in the file src names
InitDefinition ==
    /\ pc = "construct"
    /\ hashOrder = <<Str("a"), Str("b"), Str("c")>>
    /\ src = NoneV /\ req = NoneV /\ out = Ok(NoneV)
    /\ kind = "none"
    /\ \E k \in {"none", "Pod", "PodList"}, a \in {Str("v1"), Str("v2")} :
          module \in
             {[NoModule EXCEPT !.kind = k, !.api_version = a]}
             \cup {[NoModule EXCEPT !.kind = k, !.api_version = a,
                                    !.resource_definition = d] :
                      d \in ModuleDefinitions}
             \cup {[NoModule EXCEPT !.kind = k, !.api_version = a,
                                    !.src = Str("f.yml"), !.file = d] :
                      d \in {x \in ModuleDefinitions :
                                x.kind = "Pod" /\ Truthy(x.apiVersion)}}
    /\ params \in {[name |-> n, namespace |-> ns, labels |-> l] :
                      n \in {NoneV, Str("n")}, ns \in {NoneV, Str("ns")},
                      l \in Labels}
    /\ state \in {"present", "absent"}
    /\ force \in BOOLEAN
    /\ check_mode = FALSE
    /\ server \in {NoneV}
                  \cup {Stored("Pod", Dct([kind |-> Str("Pod"),
                                           metadata |-> Dct([name |-> Str(x)])])) :
                           x \in {"n", "m"}}
    /\ srvFault = "none" /\ srvStatus = NoneV
    /\ existing = NoneV
    /\ calls = <<>>
    /\ action = "none"
    /\ ret = NoRet
    /\ run = 1
    /\ prev = NoPrev
    /\ lookup = NoLookup

SpecDefinition == InitDefinition /\ [][Next]_vars

\* a Pod 'n' on the server with one container 'x'
PodWith(labels, args) ==
    Obj("V1Pod",
        [kind |-> Str("Pod"),
         metadata |-> Obj("V1ObjectMeta",
                          [name |-> Str("n"), namespace |-> NoneV,
                           labels |-> labels, annotations |-> NoneV]),
         spec |-> Obj("V1PodSpec",
                      [node_name |-> NoneV,
                       containers |->
                          Lst(<<Container(Str("x"), Str("1"), args)>>)])])

\* values a supplied map or list may hold: a string, null, a list, a map
SuppliedValues ==
    {Str("y"), NoneV, Lst(<<Str("a")>>), Dct([c |-> Str("z")])}
SuppliedMaps ==
    {Dct([k \in {key} |-> v]) : key \in {"a", "b"}, v \in SuppliedValues}
SuppliedLists ==
    {Lst(l) : l \in SeqsUpTo({Str("b"), NoneV}, MaxLen) \ {<<>>}}

\* passes whose labels and container args carry values of every runtime type
InitMergeTypes ==
    /\ pc = "construct"
    /\ hashOrder = <<Str("a"), Str("b"), Str("c")>>
    /\ src = NoneV /\ req = NoneV /\ out = Ok(NoneV)
    /\ kind = "none"
    /\ module \in {[NoModule EXCEPT !.kind = k, !.api_version = Str("v1")] :
                      k \in {"Pod", "PodList"}}
    /\ params \in
          {[name |-> Str("n"), labels |-> l, spec_containers |-> c] :
              l \in {NoneV} \cup SuppliedMaps,
              c \in {NoneV}
                    \cup {Lst(<<Item([name |-> Str("x"), args |-> a])>>) :
                             a \in SuppliedLists}}
    /\ state \in {"present", "absent"}
    /\ force \in BOOLEAN
    /\ check_mode \in BOOLEAN
    /\ server \in {NoneV}
                  \cup {PodWith(l, a) :
                           l \in {NoneV, Dct([a |-> Str("x")])},
                           a \in {NoneV, Lst(<<Str("a")>>), Lst(<<NoneV>>)}}
    /\ srvFault = "none" /\ srvStatus = NoneV
    /\ existing = NoneV
    /\ calls = <<>>
    /\ action = "none"
    /\ ret = NoRet
    /\ run = 1
    /\ prev = NoPrev
    /\ lookup = NoLookup

SpecMergeTypes == InitMergeTypes /\ [][Next]_vars

\* the parameters of a Pod with one more name: a name the ArgumentSpec does
\* not know, with or without a value, or the alias of spec_node_name
NamedParams ==
    {[name |-> Str("n"), labels |-> l, spec_node_name |-> nn] :
        l \in Labels, nn \in {NoneV, Str("a")}}
    \cup {[name |-> Str("n"), labels |-> l, bogus |-> b] :
             l \in Labels, b \in {NoneV, Str("a")}}
    \cup {[name |-> Str("n"), labels |-> l, node_name |-> nn] :
             l \in Labels, nn \in {Str("a"), Str("b")}}

\* passes over parameter names the ArgumentSpec knows, knows as an alias or
\* does not know
InitParamNames ==
    /\ pc = "construct"
    /\ hashOrder = <<Str("a"), Str("b"), Str("c")>>
    /\ src = NoneV /\ req = NoneV /\ out = Ok(NoneV)
    /\ kind = "none"
    /\ module \in {[NoModule EXCEPT !.kind = k, !.api_version = Str("v1")] :
                      k \in {"Pod", "PodList"}}
    /\ params \in NamedParams
    /\ state \in {"present", "absent"}
    /\ force \in BOOLEAN
    /\ check_mode \in BOOLEAN
    /\ server \in {NoneV}
                  \cup {PodWith(l, NoneV) :
                           l \in {NoneV, Dct([k \in {"k"} |-> Str("a")])}}
                  \cup {[PodWith(NoneV, NoneV) EXCEPT
                           !.v["spec"].v["node_name"] = Str("a")]}
    /\ srvFault = "none" /\ srvStatus = NoneV
    /\ existing = NoneV
    /\ calls = <<>>
    /\ action = "none"
    /\ ret = NoRet
    /\ run = 1
    /\ prev = NoPrev
    /\ lookup = NoLookup

SpecParamNames == InitParamNames /\ [][Next]_vars

\* the documents of the file src names: resource definitions of a Pod
BatchDefinitions ==
    {x \in ModuleDefinitions : x.kind = "Pod" /\ Truthy(x.apiVersion)}

\* runs on the parameters alone and runs on a file of one or more
\* documents, held in req in the order of the file
InitBatch ==
    /\ pc = "construct"
    /\ hashOrder = <<Str("a"), Str("b"), Str("c")>>
    /\ src = NoneV /\ out = Ok(NoneV)
    /\ kind = "none"
    /\ req \in SeqsUpTo(BatchDefinitions, MaxDocs)
    /\ module \in
          IF req = <<>>
          THEN {[NoModule EXCEPT !.kind = k, !.api_version = Str("v1")] :
                   k \in {"Pod", "PodList"}}
          ELSE {[NoModule EXCEPT !.src = Str("f.yml"), !.file = req[1]]}
    /\ params \in {[name |-> Str("n"), namespace |-> NoneV, labels |-> l] :
                      l \in Labels}
    /\ state \in {"present", "absent"}
    /\ force \in BOOLEAN
    /\ check_mode \in BOOLEAN
    /\ server \in {NoneV}
                  \cup {PodWith(l, NoneV) :
                           l \in {NoneV, Dct([k \in {"k"} |-> Str("a")])}}
    /\ srvFault = "none" /\ srvStatus = NoneV
    /\ existing = NoneV
    /\ calls = <<>>
    /\ action = "none"
    /\ ret = NoRet
    /\ run = 1
    /\ prev = NoPrev
    /\ lookup = NoLookup

SpecBatch == InitBatch /\ [][Next]_vars

(***************************************************************************)
(* Properties of the reconciliation driver                                 *)
(***************************************************************************)
\* the mutating operations invoked so far in this pass
MutatingCalls == SelectSeq(calls, LAMBDA c : c.op \in Mutating)
\* the pass has ended after DECIDE chose a branch
Decided == pc \in Ends /\ action \notin {"none", "READ"}
\* the body request_body_from_params builds for this pass
Body == RequestBodyFromParams(kind, params)

\* C1: two passes in sequence with the same definition and options, the
\* server touched by nothing but the first pass: the first reports
\* changed=true and the second changed=false.  Stated for the passes the
\* sentence is about: force and dry-run unset, no collaborator call failing,
\* a first pass that had something to do and reported it.
C1_Idempotent ==
    (/\ run >= 2 /\ pc \in Ends /\ srvFault = "none"
     /\ ~force /\ ~check_mode
     /\ prev.end = "done" /\ prev.changed)
        => (pc = "done" /\ ret.changed = FALSE)

\* C2: under dry-run no pass invokes create, replace, patch or delete
C2_DryRunNoMutation ==
    check_mode => \A i \in DOMAIN calls : calls[i].op \notin Mutating

\* a dry-run pass went through each branch that would mutate
C2_Witness ==
    /\ check_mode /\ pc = "done" /\ action = "PATCH" /\ ret.changed
    /\ Truthy(existing) /\ server = existing

\* C3: under dry-run every pass still ends in REPORT, with the value of
\* changed the branch reports without dry-run: true for CREATE, REPLACE,
\* PATCH and DELETE, false for NOOP.
C3_DryRunReports ==
    (check_mode /\ Decided /\ Body.ok)
        => (pc = "done" /\ ret.changed = (action # "NOOP"))

\* C4 as stated: no existing object and desired state present: CREATE, one
\* create call with the body built from the parameters, no other mutating
\* call, changed=true and the created object as result
C4_CreateAsStated ==
    (Decided /\ ~Truthy(existing) /\ state = "present")
        => /\ action = "CREATE"
           /\ MutatingCalls = <<Call("create", Body.val)>>
           /\ pc = "done" /\ ret.changed
           /\ ret.result = ToDict(server)

\* C4, amended: no existing object and desired state present: CREATE, and no
\* mutating call other than create.  Outside dry-run, once the body is built,
\* create is invoked exactly once with that body, and when the call succeeds
\* the pass reports changed=true with the created object as result; under
\* dry-run create is not invoked.
C4_Create ==
    (Decided /\ ~Truthy(existing) /\ state = "present")
        => /\ action = "CREATE"
           /\ (~check_mode /\ Body.ok)
                 => MutatingCalls = <<Call("create", Body.val)>>
           /\ (check_mode \/ ~Body.ok) => MutatingCalls = <<>>
           /\ (~check_mode /\ Body.ok /\ srvFault # "mutate")
                 => /\ pc = "done" /\ ret.changed
                    /\ server = Stored(kind, Body.val)
                    /\ ret.result = ToDict(server)
           /\ pc = "done" => ret.changed

\* a pass created the object and reported it
C4_Witness ==
    /\ pc = "done" /\ action = "CREATE" /\ ~Truthy(existing)
    /\ Len(calls) = 2 /\ calls[2].op = "create"
    /\ Truthy(server) /\ ret.changed /\ ret.result = ToDict(server)

\* C5: no existing object and desired state absent: NOOP, no mutating call,
\* changed=false and an empty result
C5_DeleteAbsentNoop ==
    (Decided /\ ~Truthy(existing) /\ state = "absent")
        => /\ action = "NOOP"
           /\ pc = "done"
           /\ MutatingCalls = <<>>
           /\ ret = [changed |-> FALSE, result |-> Dct(EmptyMap)]
           /\ server = NoneV

\* a pass found nothing to delete
C5_Witness ==
    /\ pc = "done" /\ state = "absent" /\ action = "NOOP"
    /\ ~Truthy(existing) /\ Len(calls) = 1 /\ calls[1].op = "get"

\* C6: an existing object, desired state present and force set: REPLACE and
\* changed=true whatever the difference, identical objects included; never
\* PATCH or NOOP.  A failing replace call aside.
C6_ForceReplace ==
    (Decided /\ Truthy(existing) /\ state = "present" /\ force
     /\ Body.ok /\ pc # "failed")
        => (action = "REPLACE" /\ pc = "done" /\ ret.changed)

RECURSIVE Carries(_, _)
\* m still carries what e carries: every set attribute, every map key, every
\* list element, values possibly changed
Carries(e, m) ==
    IF e.t = "NoneType" THEN TRUE
    ELSE IF m.t # e.t THEN FALSE
    ELSE IF e.t = "list"
    THEN /\ Len(m.v) >= Len(e.v)
         /\ \A i \in DOMAIN e.v : Carries(e.v[i], m.v[i])
    ELSE IF e.t = "dict"
    THEN /\ DOMAIN e.v \subseteq DOMAIN m.v
         /\ \A key \in DOMAIN e.v : Carries(e.v[key], m.v[key])
    ELSE IF e.t \in PRIMITIVES THEN TRUE
    ELSE \A a \in DOMAIN e.v : Carries(e.v[a], m.v[a])

\* C7: the object obtained by materializing the parameters onto a copy of the
\* existing object still carries every field, map key and list element of the
\* existing object
C7_MergeKeepsExisting ==
    (pc \in Ends /\ action \in {"PATCH", "NOOP"} /\ Truthy(existing) /\ out.ok)
        => Carries(existing, out.val)

(***************************************************************************)
(* Naming transform: to_snake                                              *)
(***************************************************************************)
\* identifiers are sequences of characters
LowerLetters == <<"a", "b", "c", "d", "e", "f", "g", "h", "i", "j", "k", "l",
                  "m", "n", "o", "p", "q", "r", "s", "t", "u", "v", "w", "x",
                  "y", "z">>
UpperLetters == <<"A", "B", "C", "D", "E", "F", "G", "H", "I", "J", "K", "L",
                  "M", "N", "O", "P", "Q", "R", "S", "T", "U", "V", "W", "X",
                  "Y", "Z">>
IsLower(c) == \E i \in DOMAIN LowerLetters : LowerLetters[i] = c
IsUpper(c) == \E i \in DOMAIN UpperLetters : UpperLetters[i] = c
\* str.lower() on one character
LowerChar(c) ==
    IF IsUpper(c)
    THEN LowerLetters[CHOOSE i \in DOMAIN UpperLetters : UpperLetters[i] = c]
    ELSE c

RECURSIVE SubBoundaries(_, _)
\* re.sub(p, _replace, name) from position i on: at each position the pattern
\* [a-z][A-Z]|[A-Z]{2}[a-z] is tried, a match gets '_' after its first
\* character and the scan goes on behind the match
SubBoundaries(name, i) ==
    IF i > Len(name) THEN <<>>
    ELSE IF i + 1 <= Len(name) /\ IsLower(name[i]) /\ IsUpper(name[i + 1])
    THEN <<name[i], "_", name[i + 1]>> \o SubBoundaries(name, i + 2)
    ELSE IF i + 2 <= Len(name) /\ IsUpper(name[i]) /\ IsUpper(name[i + 1])
            /\ IsLower(name[i + 2])
    THEN <<name[i], "_", name[i + 1], name[i + 2]>>
            \o SubBoundaries(name, i + 3)
    ELSE <<name[i]>> \o SubBoundaries(name, i + 1)

\* mutant: the boundaries are marked but the name is not lowered
ToSnake_NotLowered(name) ==
    IF Len(name) = 0 THEN name ELSE SubBoundaries(name, 1)

\* to_snake: camel to snake; an empty name comes back as it is
ToSnake(name) ==
    IF Len(name) = 0 THEN name
    ELSE LET r == SubBoundaries(name, 1)
         IN  [i \in DOMAIN r |-> LowerChar(r[i])]

\* str.upper() on one character
UpperChar(c) ==
    IF IsLower(c)
    THEN UpperLetters[CHOOSE i \in DOMAIN LowerLetters : LowerLetters[i] = c]
    ELSE c

RECURSIVE CamelFrom(_, _)
\* string_utils.snake_case_to_camel(name, upper_case_first=False) from
\* position i on, as __add_path_to_dict calls it for each element of a
\* property path: an underscore before a letter is dropped and the letter
\* is put in upper case
CamelFrom(name, i) ==
    IF i > Len(name) THEN <<>>
    ELSE IF name[i] = "_" /\ i + 1 <= Len(name) /\ IsLower(name[i + 1])
    THEN <<UpperChar(name[i + 1])>> \o CamelFrom(name, i + 2)
    ELSE <<name[i]>> \o CamelFrom(name, i + 1)

RECURSIVE Joined(_)
\* the identifier made of the segments joined by single underscores
Joined(segments) ==
    IF Len(segments) = 0 THEN <<>>
    ELSE IF Len(segments) = 1 THEN segments[1]
    ELSE segments[1] \o <<"_">> \o Joined(Tail(segments))

\* non-empty lowercase segments
Segments == SeqsUpTo({"a", "b"}, MaxSegLen) \ {<<>>}

\* a path element is converted for the request body and the key that comes
\* back is converted with to_snake
InitNaming ==
    /\ pc = "to_camel"
    /\ hashOrder = <<Str("a"), Str("b"), Str("c")>>
    /\ src \in SeqsUpTo(Segments, MaxSegs) \ {<<>>}
    /\ req = Joined(src)
    /\ out = <<>>
    /\ DriverIdle

\* line 409: the path element goes to camelCase
ToServerCase ==
    /\ pc = "to_camel"
    /\ out' = CamelFrom(req, 1)
    /\ pc' = "to_snake"
    /\ UNCHANGED <<hashOrder, src, req>>
    /\ UNCHANGED driverVars

\* to_snake on the camelCase name
ToLocalCase ==
    /\ pc = "to_snake"
    /\ out' = ToSnake(out)
    /\ pc' = "named"
    /\ UNCHANGED <<hashOrder, src, req>>
    /\ UNCHANGED driverVars

NextNaming == ToServerCase \/ ToLocalCase

SpecNaming == InitNaming /\ [][NextNaming]_vars

\* to_snake on camelCase identifiers, the empty one included
InitSnake ==
    /\ pc = "camel"
    /\ hashOrder = <<Str("a"), Str("b"), Str("c")>>
    /\ src = <<>>
    /\ req \in SeqsUpTo({"a", "b", "A", "B"}, MaxCamelLen)
    /\ out = <<>>
    /\ DriverIdle

\* to_snake(name)
ApplyToSnake ==
    /\ pc = "camel"
    /\ out' = ToSnake(req)
    /\ pc' = "snaked"
    /\ UNCHANGED <<hashOrder, src, req>>
    /\ UNCHANGED driverVars

NextSnake == ApplyToSnake

SpecSnake == InitSnake /\ [][NextSnake]_vars

(***************************************************************************)
(* The ArgumentSpec synthesizer: __transform_properties over the           *)
(* properties of a model, and find_arg_spec over what it builds            *)
(***************************************************************************)
\* the property names drawn, as the characters the parameter names are
\* built from
PropName(w) ==
    CASE w = "metadata" -> <<"m", "e", "t", "a", "d", "a", "t", "a">>
      [] w = "labels" -> <<"l", "a", "b", "e", "l", "s">>
      [] w = "annotations" ->
            <<"a", "n", "n", "o", "t", "a", "t", "i", "o", "n", "s">>
      [] w = "namespace" -> <<"n", "a", "m", "e", "s", "p", "a", "c", "e">>
      [] w = "name" -> <<"n", "a", "m", "e">>
      [] w = "kind" -> <<"k", "i", "n", "d">>
      [] w = "type" -> <<"t", "y", "p", "e">>
      [] w = "path" -> <<"p", "a", "t", "h">>
      [] w = "spec" -> <<"s", "p", "e", "c">>
      [] w = "backend" -> <<"b", "a", "c", "k", "e", "n", "d">>

\* one entry of properties_from_model_obj: the class of the property,
\* whether it is immutable, and the properties of a nested model
Property(class, immutable, props) ==
    [class |-> class, immutable |-> immutable, props |-> props]
\* the properties of a nested model: some of name, type and path, each a
\* string that can or cannot be set
NestedProperties ==
    UNION {[S -> {Property("str", b, <<>>) : b \in BOOLEAN}] :
              S \in (SUBSET {PropName("name"), PropName("type"),
                             PropName("path")}) \ {{}}}
\* the properties of a model: kind, a metadata of either class or none, a
\* type or none, and up to two nested models
ModelProperties ==
    {(PropName("kind") :> Property("str", FALSE, <<>>)) @@ m @@ t @@ sp @@ b :
        m \in {<<>>} \cup {PropName("metadata") :> Property(c, FALSE, <<>>) :
                               c \in {"V1ObjectMeta", "UnversionedListMeta"}},
        t \in {<<>>, PropName("type") :> Property("str", FALSE, <<>>)},
        sp \in {<<>>} \cup {PropName("spec") :> Property("V1Spec", FALSE, np) :
                                np \in NestedProperties},
        b \in {<<>>} \cup {PropName("backend") :> Property("V1Backend", FALSE, np) :
                               np \in NestedProperties}}

\* an entry of the argument spec; one that names no property has the empty
\* path
ArgEntry(type, property_path, aliases) ==
    [type |-> type, property_path |-> property_path, aliases |-> aliases]

RECURSIVE TransformProperties(_, _, _, _)
\* __transform_properties over the properties still to visit.  The
\* alternate prefix is '' in every call (the lines that would extend it are
\* commented out), so the alias of a nested primitive is its bare name.
TransformProperties(properties, prefix, path, names) ==
    IF names = {} THEN <<>>
    ELSE LET prop == CHOOSE n \in names : TRUE
             attrs == properties[prop]
             meta_prefix == IF prefix # <<>>
                            THEN prefix \o <<"_">> \o PropName("metadata")
                                 \o <<"_">>
                            ELSE <<>>
             meta(n, type) ==
                 (meta_prefix \o PropName(n)) :>
                     ArgEntry(type, path \o <<PropName("metadata"),
                                               PropName(n)>>, {})
             p == IF prefix # <<>> THEN prefix \o <<"_">> \o prop ELSE prop
             arg_prefix == IF prefix # <<>> THEN prefix \o <<"_">> ELSE <<>>
             args ==
                 IF prop \in {PropName("kind")} /\ prefix = <<>> THEN <<>>
                 ELSE IF attrs.immutable THEN <<>>
                 ELSE IF prop = PropName("metadata")
                         /\ attrs.class = "UnversionedListMeta"
                 THEN PropName("namespace") :> ArgEntry("none", <<>>, {})
                 ELSE IF prop = PropName("metadata")
                 THEN meta("name", "none") @@ meta("namespace", "none")
                      @@ meta("annotations", "dict") @@ meta("labels", "dict")
                 ELSE IF attrs.class \notin PRIMITIVES \cup {"list", "dict"}
                 THEN TransformProperties(attrs.props, p, path \o <<prop>>,
                                          DOMAIN attrs.props)
                 ELSE (arg_prefix \o prop) :>
                          ArgEntry(attrs.class, path \o <<prop>>,
                                   IF arg_prefix # <<>> THEN {prop} ELSE {})
         IN  TransformProperties(properties, prefix, path, names \ {prop})
             @@ args

\* the names find_arg_spec is asked for: a name no entry knows, and every
\* name and every alias of the argument spec
AskedNames(argspec) ==
    {<<"b", "o", "g", "u", "s">>} \cup DOMAIN argspec
    \cup UNION {argspec[key].aliases : key \in DOMAIN argspec}

InitArgSpec ==
    /\ pc = "argspec_ready"
    /\ hashOrder = <<Str("a"), Str("b"), Str("c")>>
    /\ src \in ModelProperties
    /\ req = <<>>
    /\ out = Ok(<<>>)
    /\ DriverIdle

\* the argument spec of the model is built
BuildArgSpec ==
    /\ pc = "argspec_ready"
    /\ out' = Ok(TransformProperties(src, <<>>, <<>>, DOMAIN src))
    /\ pc' = "argspec_built"
    /\ UNCHANGED <<hashOrder, src, req>>
    /\ UNCHANGED driverVars

\* find_arg_spec(name) on the argument spec built: the entry of that key,
\* else the first entry, in the order the dict is iterated, that declares
\* the name as an alias, else KubernetesException
FindInArgSpec ==
    /\ pc = "argspec_built"
    /\ \E name \in AskedNames(out.val) :
          /\ req' = name
          /\ LET argspec == out.val
                 declaring == {key \in DOMAIN argspec :
                                  name \in argspec[key].aliases}
             IN  IF name \in DOMAIN argspec
                 THEN /\ existing' = Ok(argspec[name])
                      /\ pc' = "argspec_found"
                 ELSE IF declaring # {}
                 THEN /\ \E key \in declaring : existing' = Ok(argspec[key])
                      /\ pc' = "argspec_found"
                 ELSE /\ existing' = Raise("KubernetesException")
                      /\ pc' = "argspec_unknown"
    /\ UNCHANGED <<hashOrder, src, out, kind, params, state, force, check_mode,
                   server, srvFault, srvStatus, calls, action, ret, run, prev,
                   module, lookup>>

NextArgSpec == BuildArgSpec \/ FindInArgSpec

SpecArgSpec == InitArgSpec /\ [][NextArgSpec]_vars

(***************************************************************************)
(* Lookup: KubernetesLookup.run, get_object, list_objects                  *)
(***************************************************************************)
Chars(w) ==
    CASE w = "Secret" -> <<"S", "e", "c", "r", "e", "t">>
      [] w = "secret" -> <<"s", "e", "c", "r", "e", "t">>
      [] w = "Pod" -> <<"P", "o", "d">>
      [] w = "pod" -> <<"p", "o", "d">>

\* 'secret' in k, on the annotation keys drawn
ContainsSecret(k) == k \in {"openshift.io/token-secret", "secret"}
AnnotationKeys == {"note", "Secret-note", "openshift.io/token-secret", "secret"}

\* obj_dict.pop(key)
Pop(obj_dict, key) ==
    Dct([k \in DOMAIN obj_dict.v \ {key} |-> obj_dict.v[k]])

\* obj_dict.get(key): None when the key is missing
Get(obj_dict, key) ==
    IF key \in DOMAIN obj_dict.v THEN obj_dict.v[key] ELSE NoneV

\* mutant: the dict is returned as the server gave it
RemoveSecretData_Kept(obj_dict) == obj_dict

\* remove_secret_data of the lookup plugin: data and string_data are popped
\* when they hold something, annotations whose key contains 'secret' are
\* popped
RemoveSecretData(obj_dict) ==
    LET d1 == IF Truthy(Get(obj_dict, "data")) THEN Pop(obj_dict, "data")
              ELSE obj_dict
        d2 == IF Truthy(Get(d1, "string_data")) THEN Pop(d1, "string_data")
              ELSE d1
        meta == d2.v["metadata"]
        ann == Get(meta, "annotations")
    IN  IF Truthy(ann)
        THEN Dct([d2.v EXCEPT !["metadata"] =
                Dct([meta.v EXCEPT !["annotations"] =
                    Dct([k \in {a \in DOMAIN ann.v : ~ContainsSecret(a)} |->
                           ann.v[k]])])])
        ELSE d2

\* a Secret as the server holds it
SecretObj(data, string_data, annotations) ==
    Obj("V1Secret",
        [kind |-> Str("Secret"),
         metadata |-> Obj("V1ObjectMeta",
                          [name |-> Str("n"), namespace |-> NoneV,
                           labels |-> NoneV, annotations |-> annotations]),
         data |-> data, string_data |-> string_data])

\* the objects of the server a lookup can meet, per kind
LookupObjects(k) ==
    IF ToSnake(k) = Chars("secret")
    THEN {SecretObj(Dct([k1 |-> Str("YQ==")]), NoneV,
                    Dct([a \in {"note", "openshift.io/token-secret"} |->
                           Str("a")])),
          SecretObj(Dct(EmptyMap), NoneV, NoneV),
          SecretObj(NoneV, Dct([k1 |-> Str("a")]),
                    Dct([a \in {"secret", "Secret-note"} |-> Str("a")])),
          SecretObj(NoneV, NoneV, Dct(EmptyMap))}
    ELSE {Stored("Pod", RequestBodyFromParams("Pod",
              [name |-> Str("n"), labels |-> NoneV,
               spec_node_name |-> Str("a"), spec_containers |-> NoneV]).val)}

ListMethods == {"list_namespaced", "list_for_all_namespaces", "list"}
NoDefinition == [kind |-> <<>>, apiVersion |-> NoneV, name |-> NoneV,
                 namespace |-> NoneV]

\* what is found at the path src names: nothing, or the definition the
\* file holds
NoFile == [exists |-> FALSE, defn |-> NoDefinition]

InitLookup ==
    /\ pc = "lookup_start"
    /\ hashOrder = <<Str("a"), Str("b"), Str("c")>>
    /\ src = NoneV /\ req = NoneV /\ out = Ok(NoneV)
    /\ kind = "none" /\ params = NoParams /\ state = "present"
    /\ force = FALSE /\ check_mode = FALSE
    /\ srvFault \in {"none", "get"} /\ srvStatus = NoneV
    /\ existing = NoneV /\ calls = <<>> /\ action = "none"
    /\ ret = NoRet /\ run = 0 /\ prev = NoPrev /\ module = NoModule
    /\ \E kw \in {Chars("Secret"), Chars("secret"), Chars("Pod"), <<>>},
          rd \in {NoDefinition,
                  [NoDefinition EXCEPT !.kind = Chars("Secret"),
                                       !.name = Str("n")]},
          nm \in {NoneV, Str("n"), Str("m")},
          ns \in {NoneV, Str("ns")},
          ls \in {NoneV, Str("l")},
          fs \in {NoneV, Str("f")},
          ms \in SUBSET ListMethods :
        /\ lookup = [kw_kind |-> kw, kw_api_version |-> NoneV,
                     kw_name |-> nm, kw_namespace |-> ns,
                     resource_definition |-> rd,
                     src |-> NoneV, file |-> NoFile,
                     kind |-> <<>>, api_version |-> NoneV,
                     name |-> NoneV, namespace |-> NoneV,
                     label_selector |-> ls, field_selector |-> fs,
                     methods |-> ms]
        /\ LET k == IF rd.kind # <<>> THEN rd.kind ELSE kw
           IN  server \in {Lst(s) : s \in SeqsUpTo(LookupObjects(k), MaxObjects)}

\* mutant: a name given as a keyword is kept, the definition's name is used
\* only without one
ParamsFromResourceDefinition_KeywordFirst(l, defn) ==
    [l EXCEPT
        !.api_version = IF Truthy(defn.apiVersion) THEN defn.apiVersion ELSE @,
        !.kind = IF Len(defn.kind) > 0 THEN defn.kind ELSE @,
        !.name = IF Truthy(@) THEN @ ELSE defn.name,
        !.namespace = IF Truthy(defn.namespace) THEN defn.namespace ELSE @]

\* params_from_resource_definition: what the definition carries overrides
\* the keyword arguments
ParamsFromResourceDefinition(l, defn) ==
    [l EXCEPT
        !.api_version = IF Truthy(defn.apiVersion) THEN defn.apiVersion ELSE @,
        !.kind = IF Len(defn.kind) > 0 THEN defn.kind ELSE @,
        !.name = IF Truthy(defn.name) THEN defn.name ELSE @,
        !.namespace = IF Truthy(defn.namespace) THEN defn.namespace ELSE @]

\* run, lines 1030-1070, up to the choice between get_object and list_objects
LookupRun ==
    /\ pc = "lookup_start"
    /\ LET l0 == [lookup EXCEPT
                    !.kind = lookup.kw_kind,
                    !.name = lookup.kw_name,
                    !.namespace = lookup.kw_namespace,
                    !.api_version = IF lookup.kw_api_version = NoneV
                                    THEN Str("v1")
                                    ELSE lookup.kw_api_version]
           resource_definition == IF Truthy(lookup.src)
                                  THEN lookup.file.defn
                                  ELSE lookup.resource_definition
           l1 == IF resource_definition # NoDefinition
                 THEN ParamsFromResourceDefinition(l0, resource_definition)
                 ELSE l0
       IN  IF Truthy(lookup.src) /\ ~lookup.file.exists
           THEN pc' = "lookup_failed" /\ lookup' = l0
           ELSE IF Len(l1.kind) = 0
           THEN pc' = "lookup_failed" /\ lookup' = l1
           ELSE /\ lookup' = [l1 EXCEPT !.kind = ToSnake(l1.kind)]
                /\ pc' = IF Truthy(l1.name) THEN "lookup_get"
                         ELSE "lookup_list"
    /\ UNCHANGED <<hashOrder, src, req, out, kind, params, state, force, module,
                   check_mode, server, srvFault, srvStatus, existing, calls, action, ret,
                   run, prev>>

\* mutant: the answer of the fetch is put in the list even when it is None
GetObject_NoneListed ==
    /\ pc = "lookup_get"
    /\ calls' = Append(calls, Call("get", Dct([name |-> lookup.name,
                                               namespace |-> lookup.namespace])))
    /\ IF srvFault = "get"
       THEN pc' = "lookup_failed" /\ ret' = ret
       ELSE /\ pc' = "lookup_done"
            /\ LET hits == SelectSeq(server.v,
                              LAMBDA o : o.v["metadata"].v["name"] = lookup.name)
                   result_json == ToDict(hits[1])
               IN  ret' = [changed |-> FALSE,
                           result |->
                              IF Len(hits) = 0 THEN Lst(<<NoneV>>)
                              ELSE IF lookup.kind = Chars("secret")
                              THEN Lst(<<RemoveSecretData(result_json)>>)
                              ELSE Lst(<<result_json>>)]
    /\ UNCHANGED <<hashOrder, src, req, out, kind, params, state, force, module,
                   check_mode, server, srvFault, srvStatus, existing, action, run, prev,
                   lookup>>

\* get_object, lines 1105-1120: the named object, filtered for a secret
GetObject ==
    /\ pc = "lookup_get"
    /\ calls' = Append(calls, Call("get", Dct([name |-> lookup.name,
                                               namespace |-> lookup.namespace])))
    /\ IF srvFault = "get"
       THEN pc' = "lookup_failed" /\ ret' = ret
       ELSE /\ pc' = "lookup_done"
            /\ LET hits == SelectSeq(server.v,
                              LAMBDA o : o.v["metadata"].v["name"] = lookup.name)
                   result_json == ToDict(hits[1])
               IN  ret' = [changed |-> FALSE,
                           result |->
                              IF Len(hits) = 0 THEN Lst(<<>>)
                              ELSE IF lookup.kind = Chars("secret")
                              THEN Lst(<<RemoveSecretData(result_json)>>)
                              ELSE Lst(<<result_json>>)]
    /\ UNCHANGED <<hashOrder, src, req, out, kind, params, state, force, module,
                   check_mode, server, srvFault, srvStatus, existing, action, run, prev,
                   lookup>>

\* mutant: without a namespace the unscoped list is tried first
ListMethodName_UnscopedFirst(l) ==
    IF Truthy(l.namespace)
    THEN IF "list_namespaced" \in l.methods THEN "list_namespaced" ELSE "none"
    ELSE IF "list" \in l.methods THEN "list"
    ELSE IF "list_for_all_namespaces" \in l.methods
    THEN "list_for_all_namespaces" ELSE "none"

\* the list method list_objects resolves, lines 1124-1143; "none" when the
\* lookup fails to find one
ListMethodName(l) ==
    IF Truthy(l.namespace)
    THEN IF "list_namespaced" \in l.methods THEN "list_namespaced" ELSE "none"
    ELSE IF "list_for_all_namespaces" \in l.methods
    THEN "list_for_all_namespaces"
    ELSE IF "list" \in l.methods THEN "list" ELSE "none"

\* list_objects, lines 1122-1171: the items of the list call, filtered for a
\* secret
ListObjects ==
    /\ pc = "lookup_list"
    /\ LET method_name == ListMethodName(lookup)
           sel == [s \in {x \in {"field_selector", "label_selector"} :
                            Truthy(lookup[x])} |-> lookup[s]]
           args == sel @@ [include_uninitialized |->
                               [t |-> "bool", v |-> FALSE]]
                      @@ (IF Truthy(lookup.namespace)
                          THEN [namespace |-> lookup.namespace]
                          ELSE EmptyMap)
       IN  IF method_name = "none"
           THEN pc' = "lookup_failed" /\ UNCHANGED <<calls, ret>>
           ELSE /\ calls' = Append(calls, Call(method_name, Dct(args)))
                /\ IF srvFault = "get"
                   THEN pc' = "lookup_failed" /\ ret' = ret
                   ELSE /\ pc' = "lookup_done"
                        /\ LET response == ToDict(server)
                           IN  ret' = [changed |-> FALSE,
                                       result |->
                                          IF lookup.kind = Chars("secret")
                                          THEN Lst([i \in DOMAIN response.v |->
                                                  RemoveSecretData(response.v[i])])
                                          ELSE response]
    /\ UNCHANGED <<hashOrder, src, req, out, kind, params, state, force, module,
                   check_mode, server, srvFault, srvStatus, existing, action, run, prev,
                   lookup>>

NextLookup ==
    \/ LookupRun
    \/ GetObject
    \/ ListObjects

SpecLookup == InitLookup /\ [][NextLookup]_vars

\* the resource definitions drawn: each of kind, apiVersion, metadata.name and
\* metadata.namespace carried or not
Definitions ==
    {[kind |-> k, apiVersion |-> a, name |-> n, namespace |-> ns] :
        k \in {<<>>, Chars("Secret")}, a \in {NoneV, Str("v2")},
        n \in {NoneV, Str("m")}, ns \in {NoneV, Str("ns2")}}

\* lookups that differ by their keyword arguments and by the definition given
\* inline or in the file src names, on a server of one object
InitLookupArgs ==
    /\ pc = "lookup_start"
    /\ hashOrder = <<Str("a"), Str("b"), Str("c")>>
    /\ src = NoneV /\ req = NoneV /\ out = Ok(NoneV)
    /\ kind = "none" /\ params = NoParams /\ state = "present"
    /\ force = FALSE /\ check_mode = FALSE
    /\ srvFault = "none" /\ srvStatus = NoneV
    /\ existing = NoneV /\ calls = <<>> /\ action = "none"
    /\ ret = NoRet /\ run = 0 /\ prev = NoPrev /\ module = NoModule
    /\ \E kw \in {Chars("Pod"), <<>>},
          av \in {NoneV, Str("v1beta1")},
          nm \in {NoneV, Str("n")},
          ns \in {NoneV, Str("ns")},
          given \in
             {[src |-> NoneV, file |-> NoFile, rd |-> d] : d \in Definitions}
             \cup {[src |-> Str("missing.yml"), file |-> NoFile,
                    rd |-> NoDefinition]}
             \cup {[src |-> Str("f.yml"),
                    file |-> [exists |-> TRUE, defn |-> d], rd |-> r] :
                      d \in Definitions,
                      r \in {NoDefinition,
                             [NoDefinition EXCEPT !.name = Str("n")]}} :
        /\ lookup = [kw_kind |-> kw, kw_api_version |-> av,
                     kw_name |-> nm, kw_namespace |-> ns,
                     resource_definition |-> given.rd,
                     src |-> given.src, file |-> given.file,
                     kind |-> <<>>, api_version |-> NoneV,
                     name |-> NoneV, namespace |-> NoneV,
                     label_selector |-> NoneV, field_selector |-> NoneV,
                     methods |-> ListMethods]
        /\ LET d == IF Truthy(given.src) THEN given.file.defn ELSE given.rd
               k == IF Len(d.kind) > 0 THEN d.kind ELSE kw
           IN  server \in {Lst(<<o>>) : o \in LookupObjects(k)}

SpecLookupArgs == InitLookupArgs /\ [][NextLookup]_vars

\* the objects the lookup returned
Response == ret.result.v
\* the lookup was for a Secret kind and has returned
SecretReturned == pc = "lookup_done" /\ lookup.kind = Chars("secret")
NoSecretAnnotation(o) ==
    LET ann == Get(o.v["metadata"], "annotations")
    IN  Truthy(ann) => \A k \in DOMAIN ann.v : ~ContainsSecret(k)

\* C10 as stated: every object lookup returns for a Secret kind, fetched by
\* name or item of a list, has no data field, no string_data field and no
\* annotation whose key contains "secret", whatever the server object held
C10_NoSecretFieldsAsStated ==
    SecretReturned =>
        \A i \in DOMAIN Response :
            /\ "data" \notin DOMAIN Response[i].v
            /\ "string_data" \notin DOMAIN Response[i].v
            /\ NoSecretAnnotation(Response[i])

\* C10, amended: every object lookup returns for a Secret kind has no data
\* and no string_data field that holds a value (a field the server object
\* has unset or empty is returned as it is) and no annotation whose key
\* contains "secret"
C10_NoSecretData ==
    SecretReturned =>
        \A i \in DOMAIN Response :
            /\ ~Truthy(Get(Response[i], "data"))
            /\ ~Truthy(Get(Response[i], "string_data"))
            /\ NoSecretAnnotation(Response[i])

\* a list of two secrets came back, of a server holding one with data, one
\* with string_data and one with a secret annotation: data is gone from one,
\* string_data from one, and no secret annotation is left
C10_Witness ==
    /\ SecretReturned /\ Len(calls) = 1 /\ calls[1].op # "get"
    /\ Len(Response) = 2
    /\ \E i \in DOMAIN server.v : Truthy(server.v[i].v["data"])
    /\ \E i \in DOMAIN server.v : Truthy(server.v[i].v["string_data"])
    /\ \E i \in DOMAIN server.v : ~NoSecretAnnotation(ToDict(server.v[i]))
    /\ \E i \in DOMAIN Response : "data" \notin DOMAIN Response[i].v
    /\ \E i \in DOMAIN Response : "string_data" \notin DOMAIN Response[i].v
    /\ \A i \in DOMAIN Response : NoSecretAnnotation(Response[i])

\* list_objects has run: run found a kind and no name
Listed ==
    /\ pc \in {"lookup_done", "lookup_failed"}
    /\ Len(lookup.kind) > 0 /\ ~Truthy(lookup.name)

\* C11: a lookup that lists with the namespace omitted invokes the
\* all-namespaces list operation when the helper has it, else the unscoped
\* list operation when the helper has that one; it invokes nothing else, and
\* it fails to resolve an operation, invoking none, only when the helper has
\* neither.  With an operation resolved and a call that succeeds the lookup
\* returns.
C11_ListFallback ==
    (Listed /\ ~Truthy(lookup.namespace)) =>
        /\ "list_for_all_namespaces" \in lookup.methods
              => (Len(calls) = 1 /\ calls[1].op = "list_for_all_namespaces")
        /\ ("list_for_all_namespaces" \notin lookup.methods
            /\ "list" \in lookup.methods)
              => (Len(calls) = 1 /\ calls[1].op = "list")
        /\ (lookup.methods \cap {"list_for_all_namespaces", "list"} = {})
              <=> (calls = <<>> /\ pc = "lookup_failed")
        /\ (lookup.methods \cap {"list_for_all_namespaces", "list"} # {}
            /\ srvFault = "none") => pc = "lookup_done"

\* the helper has the namespaced and the unscoped list only, no namespace is
\* given, and the unscoped list was invoked and answered
C11_Witness ==
    /\ pc = "lookup_done" /\ Listed /\ ~Truthy(lookup.namespace)
    /\ lookup.methods = {"list_namespaced", "list"}
    /\ Len(calls) = 1 /\ calls[1].op = "list"

\* get_object has run: run found a kind and a name
Got ==
    /\ pc \in {"lookup_done", "lookup_failed"}
    /\ Len(lookup.kind) > 0 /\ Truthy(lookup.name)
\* the server objects of the name looked up
Named == SelectSeq(server.v, LAMBDA o : o.v["metadata"].v["name"] = lookup.name)
\* the returned dict d is the server object o: same kind, same name and
\* namespace, same labels
IsObject(d, o) ==
    /\ d.t = "dict"
    /\ d.v["kind"] = o.v["kind"]
    /\ \A a \in {"name", "namespace", "labels"} :
          d.v["metadata"].v[a] = ToDict(o.v["metadata"].v[a])
\* the arguments of the call that name a selector
Selectors(call) ==
    DOMAIN call.body.v \cap {"label_selector", "field_selector"}

\* C12: with a name, lookup makes one get call for that name and namespace,
\* with no selector, and returns a list of exactly the object fetched, or
\* the empty list when there is none; without a name it makes one list call
\* that carries each selector given, and returns the items of its answer, one
\* per object and in the order of the answer
C12_GetOrList ==
    /\ Got =>
          /\ calls = <<Call("get", Dct([name |-> lookup.name,
                                        namespace |-> lookup.namespace]))>>
          /\ pc = "lookup_done" =>
                IF Len(Named) = 0 THEN Response = <<>>
                ELSE Len(Response) = 1 /\ IsObject(Response[1], Named[1])
    /\ (Listed /\ Len(calls) > 0) =>
          /\ Len(calls) = 1 /\ calls[1].op # "get"
          /\ Selectors(calls[1]) =
                {x \in {"label_selector", "field_selector"} : Truthy(lookup[x])}
          /\ \A x \in Selectors(calls[1]) : calls[1].body.v[x] = lookup[x]
          /\ pc = "lookup_done" =>
                /\ Len(Response) = Len(server.v)
                /\ \A i \in DOMAIN Response :
                      IsObject(Response[i], server.v[i])

\* a lookup by name with both selectors given, on a server of two objects,
\* returned one object and passed no selector
C12_Witness ==
    /\ Got /\ pc = "lookup_done"
    /\ Truthy(lookup.label_selector) /\ Truthy(lookup.field_selector)
    /\ Len(server.v) = 2 /\ Len(Response) = 1
    /\ Selectors(calls[1]) = {}

\* the definition run uses: the one the file of src holds, else the inline
\* one
Definition ==
    IF Truthy(lookup.src) THEN lookup.file.defn
    ELSE lookup.resource_definition
\* run has read its arguments and the definition
ArgsRead ==
    /\ pc # "lookup_start"
    /\ Truthy(lookup.src) => lookup.file.exists

\* C13: after run has read a definition, given inline or loaded from src,
\* the api version, kind, name and namespace of the lookup are those the
\* definition carries, and for each one it does not carry the value of the
\* keyword argument (v1 for an api version not given); a get call is made
\* with that name and namespace
C13_DefinitionOverrides ==
    ArgsRead =>
        /\ lookup.api_version =
              IF Truthy(Definition.apiVersion) THEN Definition.apiVersion
              ELSE IF lookup.kw_api_version = NoneV THEN Str("v1")
              ELSE lookup.kw_api_version
        /\ lookup.kind = ToSnake(IF Len(Definition.kind) > 0
                                 THEN Definition.kind ELSE lookup.kw_kind)
        /\ lookup.name = IF Truthy(Definition.name) THEN Definition.name
                         ELSE lookup.kw_name
        /\ lookup.namespace =
              IF Truthy(Definition.namespace) THEN Definition.namespace
              ELSE lookup.kw_namespace
        /\ \A i \in DOMAIN calls :
              calls[i].op = "get" =>
                 calls[i].body = Dct([name |-> lookup.name,
                                      namespace |-> lookup.namespace])

\* a definition loaded from src that carries a kind and a name but no
\* namespace and no api version: its name replaced the keyword's, the
\* keyword's namespace and api version stayed, and the get call was made
C13_Witness ==
    /\ pc = "lookup_done" /\ Truthy(lookup.src)
    /\ Definition = [NoDefinition EXCEPT !.kind = Chars("Secret"),
                                         !.name = Str("m")]
    /\ lookup.kw_name = Str("n") /\ lookup.name = Str("m")
    /\ lookup.kw_kind = Chars("Pod") /\ lookup.kind = Chars("secret")
    /\ lookup.namespace = Str("ns") /\ lookup.api_version = Str("v1beta1")
    /\ Len(calls) = 1 /\ calls[1].op = "get"

\* the definition supplied to the module: the one in the file of src, else
\* the inline one
ModuleDefinition ==
    IF Truthy(module.src) THEN module.file ELSE module.resource_definition
\* the kind, api version, name and namespace in effect by the precedence of
\* the definition over the top-level parameters
EffectiveKind ==
    IF ModuleDefinition.kind # "none" THEN ModuleDefinition.kind
    ELSE module.kind
EffectiveApiVersion ==
    IF Truthy(ModuleDefinition.apiVersion) THEN ModuleDefinition.apiVersion
    ELSE module.api_version
EffectiveAddress ==
    Dct([name |-> IF Truthy(ModuleDefinition.name) THEN ModuleDefinition.name
                  ELSE Param("name"),
         namespace |-> IF Truthy(ModuleDefinition.namespace)
                       THEN ModuleDefinition.namespace
                       ELSE Param("namespace")])

\* C14: when a resource definition is supplied, inline or from src, the
\* pass works with the kind and api version the definition carries, and with
\* the top-level kind and api version for the one it does not carry; it does
\* not stop before the fetch when a kind is in effect; and the fetch and the
\* delete call are addressed to the name and namespace the definition
\* carries, the top-level name and namespace standing for those it does not
C14_DefinitionOverrides ==
    (ModuleDefinition.given /\ run = 1 /\ pc # "construct") =>
        /\ kind = EffectiveKind
        /\ module.used_api_version = EffectiveApiVersion
        /\ EffectiveKind # "none" => Len(calls) > 0
        /\ \A i \in DOMAIN calls :
              calls[i].op \in {"get", "delete"}
                 => calls[i].body = EffectiveAddress

\* C15 as stated: for every identifier of non-empty lowercase segments joined
\* by single underscores, one-letter segments included, to_snake of its
\* camelCase form is the identifier
C15_RoundTripAsStated ==
    pc = "named" => out = req

\* every one-letter segment of the identifier is its first or its last
OneLetterAtEnds ==
    \A i \in 2..(Len(src) - 1) : Len(src[i]) >= 2

\* C15: for every identifier of non-empty lowercase segments joined by single
\* underscores whose one-letter segments are only the first or the last,
\* to_snake of its camelCase form is the identifier
C15_RoundTrip ==
    (pc = "named" /\ OneLetterAtEnds) => out = req

\* an identifier of three segments that begins and ends with a one-letter
\* segment has gone to camelCase and come back
C15_Witness ==
    /\ pc = "named"
    /\ Len(src) = 3 /\ Len(src[1]) = 1 /\ Len(src[2]) = 2 /\ Len(src[3]) = 1
    /\ out = req

\* C16: a pass that found an existing object with the desired state absent
\* takes DELETE; it has sent delete once, for the name and namespace of the
\* fetch, and not at all under dry-run, and no other mutating call; it
\* reports changed=true, except that a failed delete call ends the pass as
\* fatal with no changed=true
C16_Delete ==
    (pc \in Ends /\ state = "absent" /\ Truthy(existing)) =>
        /\ action = "DELETE"
        /\ MutatingCalls = IF check_mode THEN <<>>
                           ELSE <<Call("delete", Address)>>
        /\ IF ~check_mode /\ srvFault = "mutate"
           THEN pc = "failed" /\ "changed" \notin DOMAIN ret
           ELSE pc = "done" /\ ret.changed

\* an existing object has been deleted by one delete call
C16_Witness ==
    /\ pc = "done" /\ action = "DELETE" /\ ~check_mode
    /\ Truthy(existing) /\ server = NoneV
    /\ Len(MutatingCalls) = 1 /\ ret.changed

\* the pass ended with an existing object, desired state present, no force
NoForcePass ==
    pc \in Ends /\ state = "present" /\ Truthy(existing) /\ ~force

\* C17: with an existing object, desired state present and force not set, the
\* parameters are materialized onto a copy of the existing object and the
\* two are compared.  On a match the pass takes NOOP: changed=false, the
\* existing object as result, no mutating call.  Otherwise it takes PATCH:
\* the only mutating call is a patch with the merged object, never create,
\* replace or delete, and the pass reports changed=true (a failing patch
\* call aside, after which nothing is reported).
C17_NoForce ==
    NoForcePass =>
        /\ out = ObjectFromParams(kind, params, existing)
        /\ (out.ok /\ ObjectsMatch(existing, out.val))
              => /\ action = "NOOP" /\ pc = "done"
                 /\ ret = [changed |-> FALSE, result |-> ToDict(existing)]
                 /\ MutatingCalls = <<>>
        /\ (out.ok /\ ~ObjectsMatch(existing, out.val))
              => /\ action = "PATCH"
                 /\ MutatingCalls \in {<<>>, <<Call("patch", out.val)>>}
                 /\ pc = "done"
                       => ret = [changed |-> TRUE, result |-> ToDict(out.val)]
                 /\ pc # "done"
                       => pc = "failed" /\ srvFault = "mutate" /\ ~check_mode

\* a pass has sent the merged object, which differs from the existing one,
\* as a patch and reported the change
C17_Witness ==
    /\ NoForcePass /\ pc = "done" /\ action = "PATCH"
    /\ out.ok /\ out.val # existing
    /\ MutatingCalls = <<Call("patch", out.val)>>
    /\ ret.changed

\* the pass is past FETCH_EXISTING
PastFetch == pc \notin {"construct", "start"} /\ ~IsListKind(kind)

\* C18: a fetch that finds no object is not an error: the pass goes to DECIDE
\* with existing = none and takes one of the branches for no existing
\* object.  A fetch that fails ends the pass as fatal with the status of the
\* failure, and the get is the only call of the pass.
C18_Fetch ==
    PastFetch =>
        IF srvFault = "get"
        THEN /\ pc = "failed"
             /\ ret = FailJson("Failed to retrieve requested object", srvStatus)
             /\ calls = <<Call("get", Address)>>
             /\ action = "none"
        ELSE /\ pc = "decide" => (existing = Found /\ action = "none")
             /\ ~Truthy(existing)
                   => (pc = "decide" \/ action \in {"CREATE", "NOOP"})
             /\ pc = "failed" => Len(calls) >= 2 \/ ~Body.ok

\* a fetch was refused with status 403 and the pass ended as fatal
C18_Witness ==
    /\ PastFetch /\ srvFault = "get" /\ pc = "failed"
    /\ ret.error = [t |-> "int", v |-> 403]
    /\ calls = <<Call("get", Address)>>

\* what the calls of the pass and its end look like at any moment
OneMutation ==
    /\ Len(MutatingCalls) <= 1
    /\ \A i \in DOMAIN calls :
          calls[i].op \in Mutating
             => /\ i = 2 /\ calls[1].op = "get" /\ srvFault # "get"
                /\ srvFault = "mutate"
                      => /\ i = Len(calls) /\ pc = "failed"
                         /\ "failed" \in DOMAIN ret
    /\ IF pc \in Ends
       THEN /\ pc = "done" => DOMAIN ret = {"changed", "result"}
            /\ pc = "failed" => DOMAIN ret = {"failed", "msg", "error"}
            /\ pc = "crashed" => ret = NoRet
       ELSE ret = NoRet

\* C19: a pass invokes at most one mutating operation, and only after the
\* fetch of the existing object has returned; after a mutating call that
\* failed no operation follows and the pass has ended as fatal; a pass under
\* way has handed back nothing, a pass that ended takes no further step (the
\* next thing is another pass) and has handed back one report (done) or one
\* fatal error (fail_json, or an exception that ends the module)
C19_OneMutation ==
    /\ []OneMutation
    /\ [][(pc \in Ends) => (pc' = "construct" /\ run' = run + 1)]_vars

\* a mutating call failed after the fetch and ended the pass as fatal
C19_Witness ==
    /\ pc = "failed" /\ srvFault = "mutate"
    /\ Len(calls) = 2 /\ calls[1].op = "get" /\ calls[2].op \in Mutating
    /\ ret.failed

\* DECIDE of a pass with an existing object, desired state present, no force
NoForceDecide ==
    pc = "decide" /\ state = "present" /\ Truthy(existing) /\ ~force

NoMergeRule(x) == x.t \notin PRIMITIVES \cup {"list", "dict"}
\* the supplied labels or the supplied args of a container hold such a value
SuppliedNoMergeRule ==
    \/ /\ Truthy(Param("labels"))
       /\ \E key \in DOMAIN params.labels.v : NoMergeRule(params.labels.v[key])
    \/ /\ Truthy(Param("spec_containers"))
       /\ \E i \in DOMAIN params.spec_containers.v :
             \E j \in DOMAIN params.spec_containers.v[i].v["args"].v :
                NoMergeRule(params.spec_containers.v[i].v["args"].v[j])

\* C21: a pass that merges the parameters into the existing object and
\* meets a supplied map value or list element with no merge rule ends as
\* fatal, with the error of the merge and no mutating call
C21_UnsupportedTypeFatal ==
    (NoForcePass /\ SuppliedNoMergeRule)
        => /\ pc = "failed" /\ MutatingCalls = <<>>
           /\ ~out.ok /\ out.err = "KubernetesException"

\* the pass has materialized its parameters: with the desired state present
\* it has ended in a branch of DECIDE or on the error of the merge
Materialized ==
    /\ pc \in Ends /\ state = "present"
    /\ action \notin {"none", "READ"} \/ ~out.ok

\* C22: a pass that materializes parameters with a name that is neither a
\* key nor an alias of the ArgumentSpec, with or without a value, ends as
\* fatal with no mutating call (by fail_json in CREATE and PATCH, by the
\* exception itself in REPLACE, where nothing catches it); a value supplied
\* under an alias is put at the property path of the entry that declares the
\* alias
C22_ParamNames ==
    /\ (Materialized /\ "bogus" \in DOMAIN params)
          => /\ MutatingCalls = <<>>
             /\ pc = IF action = "REPLACE" THEN "crashed" ELSE "failed"
             /\ pc = "failed" => ret.msg \in {"Failed to create object",
                                               "Failed to patch object"}
    /\ (Materialized /\ "node_name" \in DOMAIN params)
          => /\ action = "PATCH"
                   => /\ out.ok
                      /\ out.val.v["spec"].v["node_name"] = params.node_name
             /\ action = "NOOP"
                   => existing.v["spec"].v["node_name"] = params.node_name
             /\ \A i \in DOMAIN calls :
                   calls[i].op \in {"create", "replace"}
                      => calls[i].body.v["spec"].v["nodeName"]
                            = params.node_name
             /\ (srvFault = "none"
                   /\ (~check_mode \/ action \in {"PATCH", "NOOP"}))
                   => pc = "done"

\* a value supplied under the alias node_name has been sent by a create
C22_Witness ==
    /\ Materialized /\ "node_name" \in DOMAIN params /\ pc = "done"
    /\ action = "CREATE" /\ Len(calls) = 2
    /\ calls[2].body.v["spec"].v["nodeName"] = params.node_name

\* every request element provides that attribute
AllProvide(key) ==
    \A i \in DOMAIN req.v : key \in DOMAIN req.v[i].v /\ Truthy(req.v[i].v[key])
ClassHas(key) == key \in DOMAIN SwaggerTypes(kind)
\* the entry agrees with the request element on every attribute it names
FullMatch(entry, item) == \A f \in DOMAIN item.v : entry.v[f] = item.v[f]
\* the merge went by that key: entries keep their keys, and one entry is
\* appended for each key value of the request no entry carries
MatchedBy(key) ==
    LET E == src.v
        M == out.val.v
    IN  /\ \A i \in DOMAIN E : M[i].v[key] = E[i].v[key]
        /\ Len(M) = Len(E)
                      + Cardinality({req.v[i].v[key] : i \in DOMAIN req.v}
                                      \ {E[i].v[key] : i \in DOMAIN E})
        /\ \A i \in DOMAIN req.v : \A j \in DOMAIN M :
               M[j].v[key] = req.v[i].v[key]
                  => \E l \in DOMAIN req.v :
                        /\ req.v[l].v[key] = req.v[i].v[key]
                        /\ FullMatch(M[j], req.v[l])
\* the merge went by full-field equality: entries are left as they are, and
\* an entry is appended exactly when some request element agrees with no
\* entry on every attribute it names
MatchedByFields ==
    LET E == src.v
        M == out.val.v
    IN  /\ Len(M) >= Len(E)
        /\ \A i \in DOMAIN E : M[i] = E[i]
        /\ \A i \in DOMAIN req.v : \E j \in DOMAIN M : FullMatch(M[j], req.v[i])
        /\ Len(M) = Len(E)
              <=> \A i \in DOMAIN req.v :
                     \E j \in DOMAIN E : FullMatch(E[j], req.v[i])
KeyChoiceDone == pc = "keyed_done" /\ Len(req.v) > 0

\* C23 as stated: the key is the first of name, type that the class has and
\* that every request element provides
C23_KeyAsStated ==
    KeyChoiceDone =>
        /\ out.ok
        /\ IF ClassHas("name") /\ AllProvide("name") THEN MatchedBy("name")
           ELSE IF ClassHas("type") /\ AllProvide("type") THEN MatchedBy("type")
           ELSE MatchedByFields

\* C23: the key is the first of name, type that the class has; the merge
\* goes by that key when every request element provides it, and by
\* full-field equality otherwise, also when the class has a type as well
\* that every request element provides
C23_KeyChoice ==
    KeyChoiceDone =>
        /\ out.ok
        /\ IF ClassHas("name")
           THEN IF AllProvide("name") THEN MatchedBy("name")
                ELSE MatchedByFields
           ELSE IF ClassHas("type") /\ AllProvide("type")
           THEN MatchedBy("type")
           ELSE MatchedByFields

\* a class with a name and a type, request elements that all give the type
\* and not all the name: the element that differs from the entry of its type
\* is appended
C23_Witness ==
    /\ KeyChoiceDone /\ out.ok
    /\ ClassHas("name") /\ ClassHas("type")
    /\ AllProvide("type") /\ ~AllProvide("name")
    /\ Len(src.v) = 1 /\ Len(req.v) = 1
    /\ req.v[1].v["type"] = src.v[1].v["type"]
    /\ Len(out.val.v) = 2

\* the pass has merged a supplied map of labels, whose values all have a
\* merge rule, into an existing object
LabelsApplied ==
    /\ pc \in Ends /\ state = "present" /\ ~force /\ Truthy(existing)
    /\ action \in {"PATCH", "NOOP"} \/ ~out.ok
    /\ "labels" \in DOMAIN params /\ params.labels.t = "dict"
    /\ \A n \in DOMAIN params \ {"name", "labels"} : params[n] = NoneV
    /\ \A key \in DOMAIN params.labels.v : ~NoMergeRule(params.labels.v[key])
\* the labels of an object, the empty map when it has none
LabelsOf(obj) ==
    IF obj.v["metadata"].v["labels"].t = "dict"
    THEN obj.v["metadata"].v["labels"].v
    ELSE [key \in {} |-> NoneV]
\* a supplied value is a list or a map under a key the existing map lacks
NestedUnderNewKey ==
    \E key \in DOMAIN params.labels.v :
        /\ params.labels.v[key].t \in {"list", "dict"}
        /\ key \notin DOMAIN LabelsOf(existing)

\* C24: a supplied map applied to a map-typed property keeps every key of
\* the existing map and leaves every supplied key with the supplied value,
\* also when the supplied value of a key the existing map lacks is a list or
\* a map
C24_MapApplied ==
    (LabelsApplied /\ NestedUnderNewKey) =>
        /\ out.ok \/ action = "NOOP"
        /\ LET merged == LabelsOf(IF action = "NOOP" THEN existing
                                  ELSE out.val)
           IN  /\ DOMAIN LabelsOf(existing) \subseteq DOMAIN merged
               /\ \A key \in DOMAIN params.labels.v :
                     /\ key \in DOMAIN merged
                     /\ merged[key] = params.labels.v[key]

\* a pass for a Secret whose parameters carry string_data
WithStringData ==
    /\ kind = "Secret" /\ state = "present"
    /\ "string_data" \in DOMAIN params /\ Truthy(params.string_data)
\* the keys and values of a map-valued parameter or attribute, empty for None
MapOf(x) == IF x.t = "dict" THEN x.v ELSE [key \in {} |-> NoneV]
\* data holds every string_data entry encoded and every other key given
Encoded(data, others) ==
    /\ data.t = "dict"
    /\ \A key \in DOMAIN params.string_data.v :
          /\ key \in DOMAIN data.v
          /\ data.v[key] = B64Encode(params.string_data.v[key])
    /\ \A key \in DOMAIN others \ DOMAIN params.string_data.v :
          key \in DOMAIN data.v /\ data.v[key] = others[key]
\* the object the PATCH branch has built and compared
PatchObjectEncoded ==
    (WithStringData /\ pc \in Ends /\ action = "PATCH") =>
        /\ out.ok
        /\ Encoded(out.val.v["data"],
                   [key \in DOMAIN MapOf(existing.v["data"])
                               \cup DOMAIN MapOf(params.data) |->
                       IF key \in DOMAIN MapOf(params.data)
                       THEN params.data.v[key]
                       ELSE existing.v["data"].v[key]])
        /\ out.val.v["string_data"] = NoneV
        /\ \A i \in DOMAIN calls :
              calls[i].op = "patch" => calls[i].body = out.val

SecretReported ==
    /\ pc = "done" /\ kind = "Secret" /\ Truthy(ret.result)
    /\ ret.result.v["kind"] = Str("Secret")
\* the dict holds a value under that key
Holds(d, key) == key \in DOMAIN d.v /\ Truthy(d.v[key])

\* C26: the result a module exits with for a Secret carries no data, no
\* string_data and no annotation whose key contains "secret"
C26_NoSecretReported ==
    SecretReported =>
        /\ ~Holds(ret.result, "data")
        /\ ~Holds(ret.result, "string_data")
        /\ Holds(ret.result.v["metadata"], "annotations")
              => "openshift.io/token-secret"
                    \notin DOMAIN ret.result.v["metadata"].v["annotations"].v

\* the first list operation the helper has, in the order namespace-scoped,
\* all-namespaces, un-scoped
FirstListed ==
    IF "list_namespaced" \in lookup.methods THEN "list_namespaced"
    ELSE IF "list_for_all_namespaces" \in lookup.methods
    THEN "list_for_all_namespaces"
    ELSE IF "list" \in lookup.methods THEN "list" ELSE "none"

\* C27: a lookup that lists invokes the first of the namespace-scoped, the
\* all-namespaces and the un-scoped list operation that the helper has, and
\* fails to resolve one, invoking none, only when the helper has none of the
\* three, with or without a namespace supplied
C27_ListOrder ==
    Listed =>
        /\ FirstListed # "none"
              => (Len(calls) = 1 /\ calls[1].op = FirstListed)
        /\ FirstListed = "none" <=> (calls = <<>> /\ pc = "lookup_failed")

\* the argument spec has been built
ArgSpecBuilt == pc \in {"argspec_built", "argspec_found", "argspec_unknown"}

\* C28: in every argument spec built no alias is declared by two entries and
\* no alias is the key of another entry, so that a name resolves to one
\* property path whatever the order of iteration
C28_Unambiguous ==
    ArgSpecBuilt =>
        \A k1, k2 \in DOMAIN out.val :
            k1 # k2 => /\ out.val[k1].aliases \cap out.val[k2].aliases = {}
                       /\ k2 \notin out.val[k1].aliases

\* a segment boundary after position i of the identifier: a lowercase
\* letter directly followed by an uppercase one, or the place before the last
\* letter of an uppercase run that a lowercase letter follows
Boundary(name, i) ==
    /\ i + 1 <= Len(name)
    /\ \/ IsLower(name[i]) /\ IsUpper(name[i + 1])
       \/ /\ IsUpper(name[i]) /\ IsUpper(name[i + 1])
          /\ i + 2 <= Len(name) /\ IsLower(name[i + 2])
RECURSIVE Separated(_, _)
\* the identifier in lowercase with a separator at every boundary
Separated(name, i) ==
    IF i > Len(name) THEN <<>>
    ELSE <<LowerChar(name[i])>>
         \o (IF Boundary(name, i) THEN <<"_">> ELSE <<>>)
         \o Separated(name, i + 1)

\* C29: to_snake gives the identifier in lowercase with a separator at every
\* segment boundary, also when two boundaries are adjacent, and gives the
\* empty identifier back as it is
C29_EveryBoundary ==
    pc = "snaked" => out = Separated(req, 1)

\* the run was given a file of documents and has ended
BatchEnded == pc \in Ends /\ Truthy(module.src) /\ Len(req) > 0
\* the fetch of a document: by its name and namespace
FetchOf(doc) ==
    Call("get", Dct([name |-> doc.name, namespace |-> doc.namespace]))

\* C30: a run on a file of several documents reconciles them one after the
\* other in the order of the file: the first document is fetched first, a
\* later document is fetched only after the ones before it, and the run
\* fetches none after a pass that ended fatal
C30_BatchInOrder ==
    BatchEnded =>
        LET fetches == SelectSeq(calls, LAMBDA c : c.op = "get")
        IN  /\ Len(fetches) >= 1
            /\ Len(fetches) <= Len(req)
            /\ \A i \in DOMAIN fetches : fetches[i] = FetchOf(req[i])
            /\ pc = "done" => Len(fetches) = Len(req)

====
